---------------------------- MODULE Spec2Model ----------------------------
(***************************************************************************)
(* A model of the glmproxy gateway core: the Reasoning Tag Splitter        *)
(* (ReasoningTagParser), the buffered tool loops (executeWithTools,        *)
(* executeWithToolsAnthropic) and the streaming engine with its tool loop  *)
(* (streamFromAnthropic, streamFromBigModel).                              *)
(*                                                                         *)
(* Strings are sequences of one-character strings, so that substring,      *)
(* indexOf and concatenation are computed as the code computes them.       *)
(***************************************************************************)
EXTENDS Integers, Sequences, FiniteSets, TLC

(***************************************************************************)
(* Bounds of the model.                                                    *)
(***************************************************************************)
\* the splitter's inputs are concatenations of at most MaxPieces pieces
MaxPieces == 4

VARIABLES
    \* ---- Reasoning Tag Splitter (one parser fed one input) ----
    spInput,       \* the whole input string
    spPos,         \* number of characters of spInput already fed to processChunk
    spParser,      \* the ReasoningTagParser object: [buffer, inReasoning]
    spOut,         \* every segment emitted so far, flattened to typed characters
    spPhase,       \* "idle" | "feeding" | "flushed"
    spCut,         \* history: a chunk boundary fell strictly inside a marker
    spHeld         \* history: the buffer that flush() found

spVars == <<spInput, spPos, spParser, spOut, spPhase, spCut, spHeld>>

\* the buffered tool loop (tools/executor.js, tools/anthropic-executor.js)
VARIABLES
    lpVariant,      \* "openai" (executeWithTools) | "anthropic" (executeWithToolsAnthropic)
    lpConfig,       \* [maxIterations, maxConsecutiveInternal, webSearch]
    lpPc,           \* "idle" | "top" | "awaitReply" | "awaitFinal" | "returned" | "thrown"
    lpIteration,    \* iteration
    lpConsecutive,  \* consecutiveInternalCalls
    lpMessages,     \* messages
    lpCalls,        \* number of backend calls issued (callGlmFn / callApiFn)
    lpResult,       \* what the caller gets: the returned response or the thrown error
    lpOnlyInternal, \* history: every reply so far was one internal-only tool call
    lpToolsSent,    \* the last backend call carried the request's tools
    lpSchedule      \* the starts and settlements of the tool calls executed last

lpVars == <<lpVariant, lpConfig, lpPc, lpIteration, lpConsecutive, lpMessages,
            lpCalls, lpResult, lpOnlyInternal, lpToolsSent, lpSchedule>>

\* the streaming engine (streaming/anthropic-stream.js, streaming/bigmodel-stream.js)
VARIABLES
    stAdapter,       \* "anthropic" | "bigmodel"
    stConfig,        \* [maxIterations, webSearch, thinking]
    stPc,            \* "idle" | "fetch" | "reading" | "dispatch" | "done"
    stToolIteration, \* toolIteration of the current streamFrom... frame
    stCalls,         \* number of backend calls (fetch) issued
    stHeadersSent,   \* res.headersSent
    stHistory,       \* conversationHistory
    out,             \* the events written to res, in order
    ss,              \* streamState (streamFromAnthropic): persists across rounds
    rd,              \* the locals of the current stream...WithToolDetection call
    up,              \* the upstream's position in the response it is sending, and
                     \* whether it ever sent reasoning after content (disorder)
                     \* or a tool call whose arguments are not JSON (badJson)
    stBudget,        \* upstream events still allowed by MaxUpstream
    stExceeded,      \* history: toolIteration > maxToolIterations was taken
    stReadFailed,    \* history: reader.read() rejected in the middle of the stream
    stStreak,        \* history: the rounds in a row, up to now, that proposed
                     \* internal tool calls only
    stToolsSent      \* the last backend call carried the request's tools

stVars == <<stAdapter, stConfig, stPc, stToolIteration, stCalls, stHeadersSent,
            stHistory, out, ss, rd, up, stBudget, stExceeded, stReadFailed,
            stStreak, stToolsSent>>

\* one backend reply on its way to the caller: a round of the tool loop and the
\* response transformer (transformers/response.js, anthropic-response.js)
VARIABLES
    brPath,      \* "openai" (transformResponse) | "anthropic" (cleanAnthropicResponse)
    brWebSearch, \* config.webSearch.enabled
    brBackend,   \* the backend's reply: [finish, toolCalls]
    brReturned,  \* the tool calls of the response the loop returned
    brHistory,   \* the turns the loop appended for this reply
    brOutbound,  \* the response sent to the caller: [stopReason, toolUses]
    brPc         \* "idle" | "received" | "continued" | "returned" | "sent"

brVars == <<brPath, brWebSearch, brBackend, brReturned, brHistory, brOutbound, brPc>>

\* one inbound request in handleMessages (server.js)
VARIABLES
    rcRequest,   \* the inbound request: [endpoint, stream, messages]
    rcPc,        \* "idle" | "attempt" | "summarize" | "retry" | "done"
    rcAttempts,  \* the message lists handed to handle...Path, in order
    rcErrors,    \* the errors those attempts threw, in order
    rcSummaryCall, \* how the summary call ended ("none" before)
    rcSummaryRequests, \* the bodies of the backend calls summarizeConversation made
    rcSummary,   \* what summarizeConversation returned ("none" before)
    rcRes        \* what was written to res, in order

rcVars ==
    <<rcRequest, rcPc, rcAttempts, rcErrors, rcSummaryCall, rcSummaryRequests,
      rcSummary, rcRes>>

\* the session cache of the remote tool backends (tools/mcp-client.js) and the
\* callers of ensureInitialized that share it
VARIABLES
    initializedSessions, \* the module's Map: url -> session id ("none": no entry)
    msCallers,           \* per caller: [pc, url, result]
    msInitRequests       \* per url: the number of `initialize` requests sent

msVars == <<initializedSessions, msCallers, msInitRequests>>

\* at most MaxCallers requests use the tool backends at the same time
MaxCallers == 3

McpUrls == {"search", "reader"}

MsIdle ==
    /\ initializedSessions = [u \in McpUrls |-> "none"]
    /\ msCallers = [c \in 1..MaxCallers |-> [pc |-> "idle", url |-> "search", result |-> "none"]]
    /\ msInitRequests = [u \in McpUrls |-> 0]

\* one streamed response and the caller's connection (streamFromAnthropic /
\* streamFromBigModel and the read loops of their tool-detection functions)
VARIABLES
    dcAdapter,     \* "anthropic" | "bigmodel"
    dcPc,          \* "idle" | "fetching" | "reading" | "tools" | "ended"
    dcClientGone,  \* the caller has closed the connection
    dcIteration,   \* toolIteration
    dcReads,       \* `reader.read()` calls of the current round that returned a chunk
    dcAfter        \* what the engine did after the disconnect:
                   \* [reads, writes, continuations]

dcVars == <<dcAdapter, dcPc, dcClientGone, dcIteration, dcReads, dcAfter>>

NothingAfter == [reads |-> 0, writes |-> 0, continuations |-> 0]

DcIdle ==
    /\ dcAdapter = "anthropic"
    /\ dcPc = "idle"
    /\ dcClientGone = FALSE
    /\ dcIteration = 0
    /\ dcReads = 0
    /\ dcAfter = NothingAfter

\* one inbound request on its way to a backend request: determineEndpoint
\* (server.js), transformRequest (request.js), prepareAnthropicRequest
\* (messages.js)
VARIABLES
    rqRequest,   \* the inbound request: [messages, tools]
    rqConfig,    \* [mode, useAnthropic, webSearch, forceReasoning, mcpTriggered]
    rqPc,        \* "idle" | "received" | "routed" | "prepared"
    rqEndpoint,  \* what determineEndpoint returned ("none" before)
    rqBackend    \* the backend request: [model, messages, tools]

rqVars == <<rqRequest, rqConfig, rqPc, rqEndpoint, rqBackend>>

NoBackendRequest == [model |-> "none", messages |-> <<>>, tools |-> {}]

RqIdle ==
    /\ rqRequest = [messages |-> <<>>, tools |-> {}]
    /\ rqConfig = [mode |-> "anthropic", useAnthropic |-> TRUE, webSearch |-> FALSE,
                   forceReasoning |-> FALSE, mcpTriggered |-> FALSE]
    /\ rqPc = "idle"
    /\ rqEndpoint = "none"
    /\ rqBackend = NoBackendRequest

\* one LocalMcpClient and the subprocesses it spawned (src/unnamed/part_002)
VARIABLES
    lcProcess,     \* this.process: 0 (null) or the number of a spawned subprocess
    lcProcs,       \* the subprocesses: [state, stdin, stubborn]
    lcRequestId,   \* this.requestId
    lcPending,     \* the keys of this.pendingRequests
    lcIssued,      \* history: the ids sendRequest gave out, in order
    lcReqs,        \* per request id: [timer, settles]
    lcLate,        \* history: the id of the last response that arrived for a
                   \* request no longer pending (0: none)
    lcGraceTimers, \* the force-kill timers of shutdown() that have not fired yet
    lcShut         \* history: the subprocesses shutdown() was called for

lcVars == <<lcProcess, lcProcs, lcRequestId, lcPending, lcIssued, lcReqs, lcLate,
            lcGraceTimers, lcShut>>

\* a client spawns at most MaxSpawns subprocesses
MaxSpawns == 2

\* a client sends at most MaxRequests requests
MaxRequests == 3

NoProc == [state |-> "none", stdin |-> "none", stubborn |-> FALSE]

NoReq == [timer |-> FALSE, settles |-> <<>>]

LcIdle ==
    /\ lcProcess = 0
    /\ lcProcs = [n \in 1..MaxSpawns |-> NoProc]
    /\ lcRequestId = 0
    /\ lcPending = {}
    /\ lcIssued = <<>>
    /\ lcReqs = [id \in 1..MaxRequests |-> NoReq]
    /\ lcLate = 0
    /\ lcGraceTimers = {}
    /\ lcShut = {}

vars ==
    <<spVars, lpVars, stVars, brVars, rcVars, msVars, dcVars, rqVars, lcVars>>

(***************************************************************************)
(* String helpers (JavaScript String.prototype semantics).                 *)
(***************************************************************************)
Min(a, b) == IF a < b THEN a ELSE b

\* s.substring(from, to), 0-based, to exclusive
Substring(s, from, to) == SubSeq(s, from + 1, to)

\* s.substring(from)
SubstringFrom(s, from) == SubSeq(s, from + 1, Len(s))

\* s.startsWith(t, at), 0-based
StartsWithAt(s, t, at) ==
    /\ at + Len(t) <= Len(s)
    /\ SubSeq(s, at + 1, at + Len(t)) = t

\* s.indexOf(t): the first 0-based position of t in s, -1 when there is none
IndexOf(s, t) ==
    LET hits == {i \in 0..(Len(s) - Len(t)) : StartsWithAt(s, t, i)}
    IN  IF hits = {} THEN -1 ELSE CHOOSE i \in hits : \A j \in hits : i <= j

(***************************************************************************)
(* ReasoningTagParser                                                      *)
(***************************************************************************)
REASONING_OPEN_TAG ==
    <<"<","r","e","a","s","o","n","i","n","g","_","c","o","n","t","e","n","t",">">>

REASONING_CLOSE_TAG ==
    <<"<","/","r","e","a","s","o","n","i","n","g","_","c","o","n","t","e","n","t",">">>

\* constructor()
NewParser == [buffer |-> <<>>, inReasoning |-> FALSE]

Segment(type, content) == [type |-> type, content |-> content]

\* findPartialTag without the hold-back: no partial marker is ever found
FindPartialTagNever(text, tag) == 0

\* findPartialTag that notices a partial marker of one character only
FindPartialTagOneChar(text, tag) ==
    IF Len(text) > 0 /\ text[Len(text)] = tag[1] THEN 1 ELSE 0

\* findPartialTag(text, tag): the length of the longest proper prefix of tag
\* that the text ends with (0 when there is none)
FindPartialTag(text, tag) ==
    LET lens == {len \in 1..Min(Len(text), Len(tag) - 1) :
                    SubstringFrom(text, Len(text) - len) = Substring(tag, 0, len)}
    IN  IF lens = {} THEN 0 ELSE CHOOSE l \in lens : \A m \in lens : m <= l

\* pendingOutput.push(...) guarded by `if (content)`
PushIf(pending, type, content) ==
    IF Len(content) > 0 THEN Append(pending, Segment(type, content)) ELSE pending

\* the while loop of processChunk
RECURSIVE ProcessLoop(_, _, _)
ProcessLoop(buffer, inReasoning, pending) ==
    IF Len(buffer) = 0
    THEN [buffer |-> buffer, inReasoning |-> inReasoning, pendingOutput |-> pending]
    ELSE
      LET tag  == IF inReasoning THEN REASONING_CLOSE_TAG ELSE REASONING_OPEN_TAG
          type == IF inReasoning THEN "thinking" ELSE "text"
          idx  == IndexOf(buffer, tag)
      IN
      IF idx # -1
      THEN \* found the marker: emit what precedes it, switch mode, go on
           ProcessLoop(SubstringFrom(buffer, idx + Len(tag)),
                       ~inReasoning,
                       PushIf(pending, type, Substring(buffer, 0, idx)))
      ELSE
        LET partial == FindPartialTag(buffer, tag) IN
        IF partial > 0
        THEN \* keep the potential partial marker, emit the rest; break
             [buffer |-> SubstringFrom(buffer, Len(buffer) - partial),
              inReasoning |-> inReasoning,
              pendingOutput |->
                  PushIf(pending, type, Substring(buffer, 0, Len(buffer) - partial))]
        ELSE \* emit all; break
             [buffer |-> <<>>,
              inReasoning |-> inReasoning,
              pendingOutput |-> Append(pending, Segment(type, buffer))]

\* flush that discards the buffer
FlushDrops(p) ==
    [buffer |-> <<>>, inReasoning |-> p.inReasoning, pendingOutput |-> <<>>]

\* processChunk without the buffer: the text held back by the previous call is lost
ProcessChunkDropHeld(p, text) == ProcessLoop(text, p.inReasoning, <<>>)

\* processChunk(text): the parser after the call, with the returned segments
ProcessChunk(p, text) == ProcessLoop(p.buffer \o text, p.inReasoning, <<>>)

\* flush(): the parser after the call, with the returned segments
Flush(p) ==
    [buffer |-> <<>>,
     inReasoning |-> p.inReasoning,
     pendingOutput |->
        IF Len(p.buffer) > 0
        THEN <<Segment(IF p.inReasoning THEN "thinking" ELSE "text", p.buffer)>>
        ELSE <<>>]

ParserOf(r) == [buffer |-> r.buffer, inReasoning |-> r.inReasoning]

\* the characters of a list of segments, each with its segment's type
RECURSIVE TypedChars(_)
TypedChars(segs) ==
    IF segs = <<>> THEN <<>>
    ELSE [i \in 1..Len(Head(segs).content) |->
             <<Head(segs).type, Head(segs).content[i]>>] \o TypedChars(Tail(segs))


(***************************************************************************)
(* What an input says, read as a whole (no chunks, no parser).             *)
(***************************************************************************)
IsMarkerAt(s, i) ==
    StartsWithAt(s, REASONING_OPEN_TAG, i) \/ StartsWithAt(s, REASONING_CLOSE_TAG, i)

MarkerLenAt(s, i) ==
    IF StartsWithAt(s, REASONING_OPEN_TAG, i)
    THEN Len(REASONING_OPEN_TAG) ELSE Len(REASONING_CLOSE_TAG)

\* the input with every marker removed
RECURSIVE StripFrom(_, _)
StripFrom(s, i) ==
    IF i >= Len(s) THEN <<>>
    ELSE IF IsMarkerAt(s, i) THEN StripFrom(s, i + MarkerLenAt(s, i))
    ELSE <<s[i + 1]>> \o StripFrom(s, i + 1)

Strip(s) == StripFrom(s, 0)

\* the markers come in well-formed pairs: open, close, open, close, ...
RECURSIVE PairedFrom(_, _, _)
PairedFrom(s, i, open) ==
    IF i >= Len(s) THEN ~open
    ELSE IF StartsWithAt(s, REASONING_OPEN_TAG, i)
         THEN ~open /\ PairedFrom(s, i + Len(REASONING_OPEN_TAG), TRUE)
    ELSE IF StartsWithAt(s, REASONING_CLOSE_TAG, i)
         THEN open /\ PairedFrom(s, i + Len(REASONING_CLOSE_TAG), FALSE)
    ELSE PairedFrom(s, i + 1, open)

WellFormed(s) == PairedFrom(s, 0, FALSE)

\* every non-marker character with the type its position calls for:
\* "thinking" between an opening marker and its closing marker, else "text"
RECURSIVE ClassifyFrom(_, _, _)
ClassifyFrom(s, i, open) ==
    IF i >= Len(s) THEN <<>>
    ELSE IF IsMarkerAt(s, i)
         THEN ClassifyFrom(s, i + MarkerLenAt(s, i),
                           StartsWithAt(s, REASONING_OPEN_TAG, i))
    ELSE <<(<<IF open THEN "thinking" ELSE "text", s[i + 1]>>)>>
            \o ClassifyFrom(s, i + 1, open)

Classify(s) == ClassifyFrom(s, 0, FALSE)

\* position p (0 < p < Len(s)) lies strictly inside a marker of s
CutsMarker(s, p) ==
    \E i \in 0..(Len(s) - 1) :
        IsMarkerAt(s, i) /\ i < p /\ p < i + MarkerLenAt(s, i)

Contents(tcs) == [i \in 1..Len(tcs) |-> tcs[i][2]]

HasType(tcs, t) == \E i \in 1..Len(tcs) : tcs[i][1] = t

(***************************************************************************)
(* The splitter fed one input in arbitrary chunks, then flushed.           *)
(***************************************************************************)
Pieces == {<<"a">>, <<"<">>, REASONING_OPEN_TAG, REASONING_CLOSE_TAG}

RECURSIVE Concat(_)
Concat(ps) == IF ps = <<>> THEN <<>> ELSE Head(ps) \o Concat(Tail(ps))

\* "a<reasoning_content>b": an opening marker that is never closed
UnclosedInput == <<"a">> \o REASONING_OPEN_TAG \o <<"b">>

\* inputs that end in the middle of a marker: "a<reas" and
\* "<reasoning_content>a</reas"
PartialOpenInput == <<"a">> \o Substring(REASONING_OPEN_TAG, 0, 5)

PartialCloseInput ==
    REASONING_OPEN_TAG \o <<"a">> \o Substring(REASONING_CLOSE_TAG, 0, 6)

SplitterInputs ==
    {Concat(ps) : ps \in UNION {[1..n -> Pieces] : n \in 0..MaxPieces}}
        \cup {UnclosedInput, PartialOpenInput, PartialCloseInput}

SpIdle ==
    /\ spInput = <<>>
    /\ spPos = 0
    /\ spParser = NewParser
    /\ spOut = <<>>
    /\ spPhase = "idle"
    /\ spCut = FALSE
    /\ spHeld = <<>>

SpInit ==
    /\ spInput \in SplitterInputs
    /\ spPos = 0
    /\ spParser = NewParser
    /\ spOut = <<>>
    /\ spPhase = "feeding"
    /\ spCut = FALSE
    /\ spHeld = <<>>

\* the caller feeds the next n characters as one chunk
SpProcessChunk ==
    /\ spPhase = "feeding"
    /\ \E n \in 1..(Len(spInput) - spPos) :
          LET r == ProcessChunk(spParser, Substring(spInput, spPos, spPos + n)) IN
          /\ spParser' = ParserOf(r)
          /\ spOut' = spOut \o TypedChars(r.pendingOutput)
          /\ spPos' = spPos + n
          /\ spCut' = (spCut \/ CutsMarker(spInput, spPos + n))
    /\ UNCHANGED <<spInput, spPhase, spHeld>>
    /\ UNCHANGED <<lpVars, stVars, brVars, rcVars, msVars, dcVars, rqVars, lcVars>>

\* the end of the input: one flush
SpFlush ==
    /\ spPhase = "feeding"
    /\ spPos = Len(spInput)
    /\ LET r == Flush(spParser) IN
          /\ spParser' = ParserOf(r)
          /\ spOut' = spOut \o TypedChars(r.pendingOutput)
    /\ spHeld' = spParser.buffer
    /\ spPhase' = "flushed"
    /\ UNCHANGED <<spInput, spPos, spCut>>
    /\ UNCHANGED <<lpVars, stVars, brVars, rcVars, msVars, dcVars, rqVars, lcVars>>

(***************************************************************************)
(* Tool classification (tools/definitions.js, tools/triggers.js,           *)
(* mcp/triggers.js).                                                       *)
(***************************************************************************)
OUR_TOOL_NAMES == {"web_search", "web_reader"}

\* the keys of TOOL_ALIASES
TOOL_ALIAS_NAMES ==
    {"WebSearch", "websearch", "Websearch", "WebFetch", "webfetch", "Webfetch",
     "search_web", "fetch_url", "read_url", "browse"}

CLAUDE_TOOL_NAMES ==
    {"WebSearch", "WebFetch", "websearch", "webfetch", "Websearch", "Webfetch"}

\* the tools of the enabled custom MCPs of the registry (one registered tool)
RegisteredMcpTools == {"mcp_tool"}

\* the tool names a backend proposes in this model
ToolNames == {"web_search", "Read", "mcp_tool"}

IsOurTool(name) == name \in OUR_TOOL_NAMES \/ name \in TOOL_ALIAS_NAMES

IsClaudeTool(name) == name \in CLAUDE_TOOL_NAMES

\* findMcpForTool(name) !== null
FindMcpForTool(name) == name \in RegisteredMcpTools

\* shouldHandleInternally(toolName, config)
ShouldHandleInternally(name, webSearchEnabled) ==
    IF FindMcpForTool(name) THEN TRUE
    ELSE IF ~webSearchEnabled THEN FALSE
    ELSE IF IsClaudeTool(name) THEN TRUE
    ELSE IsOurTool(name)

(***************************************************************************)
(* The buffered tool loops: executeWithTools (OpenAI-style backend) and    *)
(* executeWithToolsAnthropic (native backend).                             *)
(***************************************************************************)
\* configured values of toolExecution.maxIterations are 0..MaxIterCfg
MaxIterCfg == 3
\* configured values of toolExecution.maxConsecutiveInternal are 0..MaxConsecCfg
MaxConsecCfg == 2
\* over one run the backend proposes at most MaxToolCalls tool calls
MaxToolCalls == 3

\* `config.toolExecution?.maxIterations || 15`
DefaultMaxIterationsAnthropic == 15
\* `config.toolExecution.maxConsecutiveInternal || 10`
DefaultMaxConsecutiveInternal == 10

SeqsUpTo(S, n) == UNION {[1..k -> S] : k \in 0..n}

\* a backend reply: no assistant message / an error body (ok = FALSE), or a
\* message proposing the tool calls named
Replies(n) ==
    {[ok |-> FALSE, tools |-> <<>>]}
        \cup {[ok |-> TRUE, tools |-> t] : t \in SeqsUpTo(ToolNames, n)}

\* the tool calls proposed by the replies recorded in the messages
RECURSIVE Proposed(_)
Proposed(messages) ==
    IF messages = <<>> THEN 0
    ELSE Len(Head(messages).uses) + Proposed(Tail(messages))

\* the tool calls of the reply to backend call number c
ToolCallsOf(reply, c) ==
    [k \in 1..Len(reply.tools) |-> [id |-> <<c, k>>, name |-> reply.tools[k]]]

\* maxIterations as each loop reads it
LpMaxIterations(variant, config) ==
    IF variant = "anthropic" /\ config.maxIterations = 0
    THEN DefaultMaxIterationsAnthropic ELSE config.maxIterations

\* maxConsecutiveInternal as both loops read it
LpMaxConsecutiveInternal(config) ==
    IF config.maxConsecutiveInternal = 0
    THEN DefaultMaxConsecutiveInternal ELSE config.maxConsecutiveInternal

\* the streak test off by one: the final answer is forced one round late
ExceedsStreakLate(consecutive, maxConsecutive) == consecutive > maxConsecutive + 1

\* `consecutiveInternalCalls > maxConsecutiveInternal`
ExceedsStreak(consecutive, maxConsecutive) == consecutive > maxConsecutive

\* ourCalls / internalTools: the calls of a reply the proxy executes itself
InternalCalls(calls, webSearch) ==
    LET internal(tc) == ShouldHandleInternally(tc.name, webSearch)
    IN  SelectSeq(calls, internal)

\* clientCalls / clientTools: the calls of a reply left to the caller
ClientCalls(calls, webSearch) ==
    LET client(tc) == ~ShouldHandleInternally(tc.name, webSearch)
    IN  SelectSeq(calls, client)

\* the assistant turn and the tool results appended after a round
LpAppended(variant, calls, ourCalls, results) ==
    IF variant = "openai"
    THEN <<[role |-> "assistant", uses |-> ourCalls, results |-> <<>>]>>
           \o [k \in 1..Len(ourCalls) |->
                 [role |-> "tool", uses |-> <<>>,
                  results |-> <<[id |-> ourCalls[k].id, content |-> results[k]]>>]]
    ELSE <<[role |-> "assistant", uses |-> calls, results |-> <<>>],
           [role |-> "user", uses |-> <<>>,
            results |-> [k \in 1..Len(ourCalls) |->
                           [id |-> ourCalls[k].id, content |-> results[k]]]]>>

\* the forced final call made with the request's tools
RequestToolsAlways(forced) == TRUE

\* the tools of a backend call: those of the request (`{...glmRequest, messages}`),
\* none on the forced final call (`tools: undefined`)
RequestTools(forced) == ~forced

\* how one tool execution ends: a result string, a result string that starts
\* with "Error:", or a rejected promise (a thrown error, a timeout)
ToolOutcomes == {"ok", "Error:", "throws"}

\* the result string a tool call contributes:
\* executeWithTools  `r.status === 'fulfilled' ? r.value : `Error: ${r.reason...}``
\* executeInternalToolsAnthropic  `catch (error) { resultContent = `Error executing ...``
ResultOf(variant, outcome) ==
    IF outcome # "throws" THEN outcome
    ELSE IF variant = "openai" THEN "Error: rejected" ELSE "Error executing"

\* the join of Promise.all: the first rejection rejects the whole round
JoinCallsFailFast(variant, outcomes) ==
    [rejected |-> \E k \in DOMAIN outcomes : outcomes[k] = "throws",
     results  |-> [k \in DOMAIN outcomes |-> ResultOf(variant, outcomes[k])]]

\* the join of one round's tool calls: Promise.allSettled / one try-catch per
\* call, so the round itself never rejects
JoinCalls(variant, outcomes) ==
    [rejected |-> FALSE,
     results  |-> [k \in DOMAIN outcomes |-> ResultOf(variant, outcomes[k])]]

\* the order in which the n tool calls of a round are started and settled:
\* executeWithTools maps every call to a started promise and then awaits
\* Promise.allSettled; executeInternalToolsAnthropic awaits each call inside
\* its `for` loop before it starts the next
ExecuteSchedule(variant, n) ==
    IF variant = "openai"
    THEN [i \in 1..(2 * n) |->
            IF i <= n THEN <<"start", i>> ELSE <<"settled", i - n>>]
    ELSE [i \in 1..(2 * n) |->
            IF i % 2 = 1 THEN <<"start", (i + 1) \div 2>> ELSE <<"settled", i \div 2>>]

\* the classification of executeWithTools (`shouldHandleInternally(name, config)`
\* or `findMcpForTool(name) !== null`) and of isInternalTool, which
\* getInternalToolCalls, getClientToolCalls and cleanAnthropicResponse use
IsInternalTool(name, webSearch) ==
    ShouldHandleInternally(name, webSearch) \/ FindMcpForTool(name)

\* the classification of transformResponse: `!isOurTool(tc.function?.name)`
\* is a client tool call
TransformInternal(name) == IsOurTool(name)

\* transformResponse: the tool_use blocks made of the tool calls of the
\* response that executeWithTools returned
TransformResponse(toolCalls) ==
    LET client(tc) == ~TransformInternal(tc.name) IN SelectSeq(toolCalls, client)

\* what the request handler sends to the caller: executeWithTools' response
\* through transformResponse, executeWithToolsAnthropic's response as it is
Delivered(variant, toolCalls) ==
    IF variant = "openai" THEN TransformResponse(toolCalls) ELSE toolCalls

NoResult ==
    [kind |-> "none", toolCalls |-> <<>>, forced |-> FALSE, proposed |-> <<>>,
     delivered |-> <<>>]

LpIdle ==
    /\ lpVariant = "openai"
    /\ lpConfig = [maxIterations |-> 0, maxConsecutiveInternal |-> 0, webSearch |-> FALSE]
    /\ lpPc = "idle"
    /\ lpIteration = 0
    /\ lpConsecutive = 0
    /\ lpMessages = <<>>
    /\ lpCalls = 0
    /\ lpResult = NoResult
    /\ lpOnlyInternal = TRUE
    /\ lpToolsSent = FALSE
    /\ lpSchedule = <<>>

LpInit ==
    /\ lpVariant \in {"openai", "anthropic"}
    /\ lpConfig \in [maxIterations : 0..MaxIterCfg,
                     maxConsecutiveInternal : 0..MaxConsecCfg,
                     webSearch : BOOLEAN]
    /\ lpPc = "top"
    /\ lpIteration = 0
    /\ lpConsecutive = 0
    /\ lpMessages = <<[role |-> "user", uses |-> <<>>, results |-> <<>>]>>
    /\ lpCalls = 0
    /\ lpResult = NoResult
    /\ lpOnlyInternal = TRUE
    /\ lpToolsSent = FALSE
    /\ lpSchedule = <<>>

\* `while (iteration < maxIterations) { iteration++; ... await callGlmFn(...)`
LpIssueCall ==
    /\ lpPc = "top"
    /\ lpIteration < LpMaxIterations(lpVariant, lpConfig)
    \* a run is followed for MaxIterCfg rounds
    /\ lpIteration < MaxIterCfg
    /\ lpIteration' = lpIteration + 1
    /\ lpCalls' = lpCalls + 1
    /\ lpPc' = "awaitReply"
    /\ lpToolsSent' = RequestTools(FALSE)
    /\ UNCHANGED <<lpVariant, lpConfig, lpConsecutive, lpMessages, lpResult,
                   lpOnlyInternal, lpSchedule>>
    /\ UNCHANGED <<spVars, stVars, brVars, rcVars, msVars, dcVars, rqVars, lcVars>>

\* the loop condition fails: `throw new ToolExecutionError(...)`
LpExceeded ==
    /\ lpPc = "top"
    /\ ~(lpIteration < LpMaxIterations(lpVariant, lpConfig))
    /\ lpPc' = "thrown"
    /\ lpResult' = [NoResult EXCEPT !.kind = "ToolExecutionError"]
    /\ UNCHANGED <<lpVariant, lpConfig, lpIteration, lpConsecutive, lpMessages,
                   lpCalls, lpOnlyInternal, lpToolsSent, lpSchedule>>
    /\ UNCHANGED <<spVars, stVars, brVars, rcVars, msVars, dcVars, rqVars, lcVars>>

\* the backend call rejects: the error propagates out of the loop
LpCallFails ==
    /\ lpPc \in {"awaitReply", "awaitFinal"}
    /\ lpPc' = "thrown"
    /\ lpResult' = [NoResult EXCEPT !.kind = "BackendError"]
    /\ lpOnlyInternal' = FALSE
    /\ UNCHANGED <<lpVariant, lpConfig, lpIteration, lpConsecutive, lpMessages, lpCalls,
                   lpToolsSent, lpSchedule>>
    /\ UNCHANGED <<spVars, stVars, brVars, rcVars, msVars, dcVars, rqVars, lcVars>>

\* the body of one iteration, from the backend's reply to the next await
LpReply ==
    /\ lpPc = "awaitReply"
    /\ \E reply \in Replies(MaxToolCalls - Proposed(lpMessages)) :
        LET calls       == ToolCallsOf(reply, lpCalls)
            ourCalls    == InternalCalls(calls, lpConfig.webSearch)
            clientCalls == ClientCalls(calls, lpConfig.webSearch)
            streak      == IF Len(clientCalls) = 0 THEN lpConsecutive + 1 ELSE 0
        IN
        \E outcomes \in [1..Len(ourCalls) -> ToolOutcomes] :
        LET joined   == JoinCalls(lpVariant, outcomes)
            appended == lpMessages
                          \o LpAppended(lpVariant, calls, ourCalls, joined.results)
        IN
        /\ lpOnlyInternal' =
              (lpOnlyInternal /\ reply.ok /\ Len(calls) = 1 /\ Len(ourCalls) = 1)
        /\ IF ~reply.ok \/ Len(ourCalls) = 0
           THEN \* no message, no tool calls, or client tools only: return the response
                /\ lpPc' = "returned"
                /\ lpResult' = [kind |-> IF reply.ok THEN "response" ELSE "badResponse",
                                toolCalls |-> calls, forced |-> FALSE,
                                proposed |-> calls,
                                delivered |-> Delivered(lpVariant, calls)]
                /\ lpConsecutive' = IF reply.ok /\ lpVariant = "openai" /\ Len(calls) > 0
                                    THEN 0 ELSE lpConsecutive
                /\ UNCHANGED <<lpMessages, lpCalls, lpToolsSent, lpSchedule>>
           ELSE IF joined.rejected
           THEN \* the await of the tool calls rejects: the error leaves the loop
                /\ lpPc' = "thrown"
                /\ lpResult' = [NoResult EXCEPT !.kind = "ToolFailure"]
                /\ lpConsecutive' = streak
                /\ lpSchedule' = ExecuteSchedule(lpVariant, Len(ourCalls))
                /\ UNCHANGED <<lpMessages, lpCalls, lpToolsSent>>
           ELSE IF Len(clientCalls) = 0
                   /\ ExceedsStreak(streak, LpMaxConsecutiveInternal(lpConfig))
           THEN \* execute the pending calls, then one more call without tools
                /\ lpConsecutive' = streak
                /\ lpSchedule' = ExecuteSchedule(lpVariant, Len(ourCalls))
                /\ lpMessages' = appended
                /\ lpCalls' = lpCalls + 1
                /\ lpToolsSent' = RequestTools(TRUE)
                /\ lpPc' = "awaitFinal"
                /\ UNCHANGED lpResult
           ELSE /\ lpConsecutive' = streak
                /\ lpSchedule' = ExecuteSchedule(lpVariant, Len(ourCalls))
                /\ lpMessages' = appended
                /\ UNCHANGED <<lpCalls, lpToolsSent>>
                /\ IF Len(clientCalls) > 0
                   THEN \* partial response: the client tools only
                        /\ lpPc' = "returned"
                        /\ lpResult' = [kind |-> "response", toolCalls |-> clientCalls,
                                        forced |-> FALSE, proposed |-> calls,
                                        delivered |->
                                            Delivered(lpVariant, clientCalls)]
                   ELSE /\ lpPc' = "top"
                        /\ UNCHANGED lpResult
    /\ UNCHANGED <<lpVariant, lpConfig, lpIteration>>
    /\ UNCHANGED <<spVars, stVars, brVars, rcVars, msVars, dcVars, rqVars, lcVars>>

\* the reply to the forced final call is returned as the loop's result
\* (executeWithToolsAnthropic returns it through cleanAnthropicResponse)
LpFinalReply ==
    /\ lpPc = "awaitFinal"
    /\ \E reply \in Replies(MaxToolCalls - Proposed(lpMessages)) :
        LET calls    == ToolCallsOf(reply, lpCalls)
            returned == IF lpVariant = "anthropic"
                        THEN ClientCalls(calls, lpConfig.webSearch) ELSE calls
        IN
        /\ lpResult' = [kind |-> IF reply.ok THEN "response" ELSE "badResponse",
                        toolCalls |-> returned,
                        forced |-> TRUE,
                        proposed |-> calls,
                        delivered |-> Delivered(lpVariant, returned)]
    /\ lpPc' = "returned"
    /\ UNCHANGED <<lpVariant, lpConfig, lpIteration, lpConsecutive, lpMessages,
                   lpCalls, lpOnlyInternal, lpToolsSent, lpSchedule>>
    /\ UNCHANGED <<spVars, stVars, brVars, rcVars, msVars, dcVars, rqVars, lcVars>>

(***************************************************************************)
(* One backend reply on its way to the caller: the round of the tool loop  *)
(* that receives it, then transformResponse (OpenAI-style backends) or     *)
(* cleanAnthropicResponse (native backend).                                *)
(***************************************************************************)
\* a backend reply proposes at most MaxBridgeCalls tool calls
MaxBridgeCalls == 2

\* choice.finish_reason of an OpenAI-style reply ("sensitive": a value outside
\* the mapping; "none": the field is missing)
FinishReasons ==
    {"stop", "length", "tool_calls", "function_call", "content_filter",
     "sensitive", "none"}

\* stop_reason of a native reply
StopReasons == {"end_turn", "max_tokens", "tool_use", "stop_sequence"}

\* a tool call as the backend proposes it: its name, and whether its arguments
\* string is JSON (a native reply carries `input` as an object already)
BrCallShapes(path) ==
    [name : ToolNames, argsOk : IF path = "openai" THEN BOOLEAN ELSE {TRUE}]

BackendResponses(path) ==
    {[finish |-> f,
      toolCalls |-> [k \in 1..Len(t) |->
                       [id |-> <<1, k>>, name |-> t[k].name, argsOk |-> t[k].argsOk]]] :
        f \in (IF path = "openai" THEN FinishReasons ELSE StopReasons),
        t \in SeqsUpTo(BrCallShapes(path), MaxBridgeCalls)}

\* mapStopReason with no entry for `length`
MapStopReasonNoLength(finishReason, hasToolCalls) ==
    IF hasToolCalls THEN "tool_use"
    ELSE IF finishReason \in {"tool_calls", "function_call"} THEN "tool_use"
    ELSE "end_turn"

\* mapStopReason that does not look at the tool calls
MapStopReasonNoTools(finishReason, hasToolCalls) ==
    IF finishReason = "length" THEN "max_tokens"
    ELSE IF finishReason \in {"tool_calls", "function_call"} THEN "tool_use"
    ELSE "end_turn"

\* mapStopReason(finishReason, hasToolCalls)
MapStopReason(finishReason, hasToolCalls) ==
    IF hasToolCalls THEN "tool_use"
    ELSE IF finishReason = "stop" THEN "end_turn"
    ELSE IF finishReason = "length" THEN "max_tokens"
    ELSE IF finishReason = "tool_calls" THEN "tool_use"
    ELSE IF finishReason = "content_filter" THEN "end_turn"
    ELSE IF finishReason = "function_call" THEN "tool_use"
    ELSE "end_turn"

\* the tool_use block made of a tool call: `input = JSON.parse(arguments)`,
\* and `input = {}` with a warning when the parse throws
ToolUseBlock(tc) ==
    [id |-> tc.id, name |-> tc.name,
     input |-> IF tc.argsOk THEN "parsed" ELSE "empty"]

\* transformResponse(glmResponse): the tool_use blocks and the stop_reason
AnthropicResponseOf(finishReason, toolCalls) ==
    LET clientToolCalls == TransformResponse(toolCalls) IN
    [stopReason |-> MapStopReason(finishReason, Len(clientToolCalls) > 0),
     toolUses   |-> [k \in 1..Len(clientToolCalls) |->
                        ToolUseBlock(clientToolCalls[k])]]

\* cleanAnthropicResponse(anthropicResponse): the tool_use blocks and the
\* stop_reason
CleanAnthropicResponse(stopReason, content, webSearch) ==
    LET client(block)    == ~IsInternalTool(block.name, webSearch)
        clientToolBlocks == SelectSeq(content, client)
    IN  [stopReason |-> IF stopReason = "tool_use" /\ Len(clientToolBlocks) = 0
                        THEN "end_turn" ELSE stopReason,
         toolUses   |-> [k \in 1..Len(clientToolBlocks) |->
                            ToolUseBlock(clientToolBlocks[k])]]

\* executeTool(toolCall, config): the result string of one internal call, given
\* how the tool backend answers
ExecuteTool(tc, outcome) ==
    IF ~tc.argsOk THEN "Error: Invalid JSON" ELSE outcome

NoOutbound == [stopReason |-> "none", toolUses |-> <<>>]

BrIdle ==
    /\ brPath = "openai"
    /\ brWebSearch = FALSE
    /\ brBackend = [finish |-> "none", toolCalls |-> <<>>]
    /\ brReturned = <<>>
    /\ brHistory = <<>>
    /\ brOutbound = NoOutbound
    /\ brPc = "idle"

BrInit ==
    /\ brPath \in {"openai", "anthropic"}
    /\ brWebSearch \in BOOLEAN
    /\ brBackend \in BackendResponses(brPath)
    /\ brReturned = <<>>
    /\ brHistory = <<>>
    /\ brOutbound = NoOutbound
    /\ brPc = "received"

\* the reply is the reply to a call of the loop's `while`: with no internal
\* call it is returned; otherwise the internal calls are executed and their
\* turns appended, and the loop goes on (internal calls only) or returns the
\* client calls
BrLoopRound ==
    /\ brPc = "received"
    /\ LET calls       == brBackend.toolCalls
           ourCalls    == InternalCalls(calls, brWebSearch)
           clientCalls == ClientCalls(calls, brWebSearch)
       IN
       IF Len(ourCalls) = 0
       THEN /\ brReturned' = calls
            /\ brPc' = "returned"
            /\ UNCHANGED brHistory
       ELSE /\ \E outcomes \in [1..Len(ourCalls) -> ToolOutcomes] :
                 LET joined == JoinCalls(brPath,
                                  [k \in 1..Len(ourCalls) |->
                                      ExecuteTool(ourCalls[k], outcomes[k])])
                 IN  brHistory' = LpAppended(brPath, calls, ourCalls, joined.results)
            /\ IF Len(clientCalls) > 0
               THEN /\ brReturned' = IF brPath = "openai" THEN clientCalls ELSE calls
                    /\ brPc' = "returned"
               ELSE /\ brPc' = "continued"
                    /\ UNCHANGED brReturned
    /\ UNCHANGED <<brPath, brWebSearch, brBackend, brOutbound>>
    /\ UNCHANGED <<spVars, lpVars, stVars, rcVars, msVars, dcVars, rqVars, lcVars>>

\* the reply is the reply to the forced final call: it is returned as it is
BrForcedFinal ==
    /\ brPc = "received"
    /\ brReturned' = brBackend.toolCalls
    /\ brPc' = "returned"
    /\ UNCHANGED <<brPath, brWebSearch, brBackend, brHistory, brOutbound>>
    /\ UNCHANGED <<spVars, lpVars, stVars, rcVars, msVars, dcVars, rqVars, lcVars>>

\* handleOpenAIPath / handleBigModelPath: `transformResponse(glmResponse, ...)`
BrTransform ==
    /\ brPc = "returned"
    /\ brPath = "openai"
    /\ brOutbound' = AnthropicResponseOf(brBackend.finish, brReturned)
    /\ brPc' = "sent"
    /\ UNCHANGED <<brPath, brWebSearch, brBackend, brReturned, brHistory>>
    /\ UNCHANGED <<spVars, lpVars, stVars, rcVars, msVars, dcVars, rqVars, lcVars>>

\* executeWithToolsAnthropic: `return cleanAnthropicResponse(response)`
BrClean ==
    /\ brPc = "returned"
    /\ brPath = "anthropic"
    /\ brOutbound' = CleanAnthropicResponse(brBackend.finish, brReturned, brWebSearch)
    /\ brPc' = "sent"
    /\ UNCHANGED <<brPath, brWebSearch, brBackend, brReturned, brHistory>>
    /\ UNCHANGED <<spVars, lpVars, stVars, rcVars, msVars, dcVars, rqVars, lcVars>>

(***************************************************************************)
(* handleMessages: one attempt and the context recovery around it.         *)
(***************************************************************************)
RcIdle ==
    /\ rcRequest = [endpoint |-> "openai", stream |-> FALSE, messages |-> <<>>]
    /\ rcPc = "idle"
    /\ rcAttempts = <<>>
    /\ rcErrors = <<>>
    /\ rcSummaryCall = "none"
    /\ rcSummaryRequests = <<>>
    /\ rcSummary = "none"
    /\ rcRes = <<>>

\* the inbound conversation holds at most MaxMessages messages
MaxMessages == 3

Endpoints == {"openai", "anthropic", "bigmodel"}

\* the errors an attempt can end with: callGLMApi / callAnthropicApi /
\* callBigModelApi throw ContextLimitError when the backend's error text is
\* classified as a context limit and GlmApiError otherwise; the tool loop throws
\* ToolExecutionError at its iteration cap
ErrorClasses == {"ContextLimitError", "GlmApiError", "ToolExecutionError"}

\* the messages a validated request carries (validateRequest: a non-empty array)
InboundMessages ==
    UNION {[1..n -> [role : {"user", "assistant"}, content : {"original"}]] :
              n \in 1..MaxMessages}

\* how the summary call ends: a reply with text, a reply without text, an error
SummaryOutcomes == {"text", "no text", "throws"}

\* what the request transformer resolves to for the summary prompt:
\* `{ request, injections }`, the request made of summaryPrompt
PreparedSummary == [request |-> [messages |-> "summaryPrompt"]]

\* `x.request` of the transformer's return value x: the prepared request when
\* the promise was awaited, undefined when `.request` is read off the promise
RequestOf(x, awaited) == IF awaited THEN x.request ELSE [messages |-> "undefined"]

\* summarizeConversation: `prepareAnthropicRequest(summaryPrompt)` is called
\* without await on the native endpoint, `await transformRequest(summaryPrompt)`
\* on the two others
SummaryAwaited(endpoint) == endpoint # "anthropic"

\* the body of the summary call: `{ ...preparedRequest.request, stream: false }`
\* to callAnthropicApi, `glmRequest.request` to callBigModelApi / callGLMApi
SummaryCallBody(endpoint) ==
    RequestOf(PreparedSummary, SummaryAwaited(endpoint))

\* the guard without the streaming test
ShouldCompactStreaming(error, wantsStreaming, messages) ==
    error.class = "ContextLimitError" /\ Len(messages) > 1

\* the guard without the classification of the error
ShouldCompactAnyError(error, wantsStreaming, messages) ==
    ~wantsStreaming /\ Len(messages) > 1

\* `error instanceof ContextLimitError && !wantsStreaming && messages.length > 1`
ShouldCompact(error, wantsStreaming, messages) ==
    error.class = "ContextLimitError" /\ ~wantsStreaming /\ Len(messages) > 1

\* summarizeConversation that lets the error of the summary call escape
SummarizeConversationRethrows(outcome) ==
    [threw   |-> outcome = "throws",
     summary |-> IF outcome = "text" THEN "summary" ELSE "empty"]

\* summarizeConversation: the text of the reply ('' when it has none), and the
\* fallback summary when the summary call throws; it never throws itself
SummarizeConversation(outcome) ==
    [threw   |-> FALSE,
     summary |-> CASE outcome = "text" -> "summary"
                   [] outcome = "no text" -> "empty"
                   [] outcome = "throws" -> "fallback"]

\* the summary appended to the history instead of replacing it
CompactedRequestAppended(anthropicRequest, summary) ==
    [anthropicRequest EXCEPT
        !.messages = @ \o <<[role |-> "assistant", content |-> summary]>>]

\* `compactedRequest = { ...anthropicRequest }; compactedRequest.messages =
\* [{ role: 'assistant', content: summary }]`
CompactedRequest(anthropicRequest, summary) ==
    [anthropicRequest EXCEPT
        !.messages = <<[role |-> "assistant", content |-> summary]>>]

\* the first error sent although the retry failed
SurfacedOriginal(error, retryError) == error

\* `error = retryError`: the error that sendError renders after a failed retry
Surfaced(error, retryError) == retryError

\* sendJson(res, 200, anthropicResponse) at the end of handle...Path
ResponseEnvelope(attempt) == [kind |-> "response", attempt |-> attempt, class |-> "none"]

\* sendError(res, error)
ErrorEnvelope(error) == [kind |-> "error", attempt |-> error.attempt, class |-> error.class]

RcInit ==
    /\ rcRequest \in [endpoint : Endpoints, stream : BOOLEAN, messages : InboundMessages]
    /\ rcPc = "attempt"
    /\ rcAttempts = <<>>
    /\ rcErrors = <<>>
    /\ rcSummaryCall = "none"
    /\ rcSummaryRequests = <<>>
    /\ rcSummary = "none"
    /\ rcRes = <<>>

\* the first `await handle...Path(res, anthropicRequest, ...)` returns
RcAttemptOk ==
    /\ rcPc = "attempt"
    /\ rcAttempts' = Append(rcAttempts, rcRequest.messages)
    /\ rcRes' = Append(rcRes, ResponseEnvelope(1))
    /\ rcPc' = "done"
    /\ UNCHANGED <<rcRequest, rcErrors, rcSummaryCall, rcSummaryRequests, rcSummary>>
    /\ UNCHANGED <<spVars, lpVars, stVars, brVars, msVars, dcVars, rqVars, lcVars>>

\* the first attempt throws: `catch (error)`, the guard, and without recovery
\* `sendError(res, error)`
RcAttemptThrows ==
    /\ rcPc = "attempt"
    /\ \E class \in ErrorClasses :
         LET error == [class |-> class, attempt |-> 1] IN
         /\ rcAttempts' = Append(rcAttempts, rcRequest.messages)
         /\ rcErrors' = Append(rcErrors, error)
         /\ IF ShouldCompact(error, rcRequest.stream, rcRequest.messages)
            THEN /\ rcPc' = "summarize"
                 /\ UNCHANGED rcRes
            ELSE /\ rcPc' = "done"
                 /\ rcRes' = Append(rcRes, ErrorEnvelope(error))
    /\ UNCHANGED <<rcRequest, rcSummaryCall, rcSummaryRequests, rcSummary>>
    /\ UNCHANGED <<spVars, lpVars, stVars, brVars, msVars, dcVars, rqVars, lcVars>>

\* `summary = await summarizeConversation(...)` inside the inner try
RcSummarize ==
    /\ rcPc = "summarize"
    /\ \E outcome \in SummaryOutcomes, class \in ErrorClasses :
         LET r          == SummarizeConversation(outcome)
             retryError == [class |-> class, attempt |-> 0]
         IN
         /\ rcSummaryRequests' = Append(rcSummaryRequests, SummaryCallBody(rcRequest.endpoint))
         /\ rcSummaryCall' = outcome
         /\ IF r.threw
            THEN /\ rcErrors' = Append(rcErrors, retryError)
                 /\ rcRes' = Append(rcRes, ErrorEnvelope(Surfaced(rcErrors[1], retryError)))
                 /\ rcPc' = "done"
                 /\ UNCHANGED rcSummary
            ELSE /\ rcSummary' = r.summary
                 /\ rcPc' = "retry"
                 /\ UNCHANGED <<rcErrors, rcRes>>
    /\ UNCHANGED <<rcRequest, rcAttempts>>
    /\ UNCHANGED <<spVars, lpVars, stVars, brVars, msVars, dcVars, rqVars, lcVars>>

\* the retry `await handle...Path(res, compactedRequest, ...)` returns
RcRetryOk ==
    /\ rcPc = "retry"
    /\ rcAttempts' = Append(rcAttempts, CompactedRequest(rcRequest, rcSummary).messages)
    /\ rcRes' = Append(rcRes, ResponseEnvelope(2))
    /\ rcPc' = "done"
    /\ UNCHANGED <<rcRequest, rcErrors, rcSummaryCall, rcSummaryRequests, rcSummary>>
    /\ UNCHANGED <<spVars, lpVars, stVars, brVars, msVars, dcVars, rqVars, lcVars>>

\* the retry throws: `catch (retryError) { error = retryError }`, then
\* `sendError(res, error)`
RcRetryThrows ==
    /\ rcPc = "retry"
    /\ \E class \in ErrorClasses :
         LET retryError == [class |-> class, attempt |-> 2] IN
         /\ rcAttempts' = Append(rcAttempts, CompactedRequest(rcRequest, rcSummary).messages)
         /\ rcErrors' = Append(rcErrors, retryError)
         /\ rcRes' = Append(rcRes, ErrorEnvelope(Surfaced(rcErrors[1], retryError)))
    /\ rcPc' = "done"
    /\ UNCHANGED <<rcRequest, rcSummaryCall, rcSummaryRequests, rcSummary>>
    /\ UNCHANGED <<spVars, lpVars, stVars, brVars, msVars, dcVars, rqVars, lcVars>>

(***************************************************************************)
(* The streaming engine: streamFromAnthropic / streamFromBigModel and the  *)
(* per-round readers streamAnthropicWithToolDetection /                    *)
(* streamBigModelWithToolDetection.                                        *)
(***************************************************************************)
\* one logical response reads at most MaxUpstream upstream events in total
MaxUpstream == 4

\* `config.toolExecution?.maxIterations || 10`
DefaultMaxToolIterations == 10

StreamToolNames == {"web_search", "Read"}

\* the text of one upstream text delta
TextChunks == {<<"a">>, REASONING_OPEN_TAG, REASONING_CLOSE_TAG}

\* the partial_json / arguments text of one upstream tool-call fragment
JsonFragments == {"{}", "{"}

\* JSON.parse(input) succeeds (`input ? JSON.parse(input) : {}`)
JsonParses(input) == input \in {<<>>, <<"{}">>}

Ev(ev, index, kind, name) == [ev |-> ev, index |-> index, kind |-> kind, name |-> name]

MessageStartEv == Ev("message_start", -1, "", "")
BlockStartEv(index, type, name) == Ev("content_block_start", index, type, name)
BlockDeltaEv(index, type) == Ev("content_block_delta", index, type, "")
BlockStopEv(index) == Ev("content_block_stop", index, "", "")
ErrorEv(type) == Ev("error", -1, type, "")

\* res.write(...) on the engine state m = [out, ss, rd]
Write(m, e) == [m EXCEPT !.out = Append(@, e)]

NoToolUse == [id |-> <<0, 0>>, name |-> "", input |-> <<>>, index |-> -1]

NewStreamState ==
    [messageStartSent |-> FALSE, currentBlockIndex |-> 0, skippingBlockIndex |-> -1]

\* the locals at the top of stream...WithToolDetection
NewRound ==
    [thinkingBlockStarted |-> FALSE, thinkingBlockIndex |-> -1,
     textBlockStarted |-> FALSE, textBlockIndex |-> -1,
     parsedThinkingBlockStarted |-> FALSE, parsedThinkingBlockIndex |-> -1,
     currentBlockIndex |-> 0,
     reasoningParser |-> NewParser,
     currentToolUse |-> NoToolUse,
     nativeThinkingBlockActive |-> FALSE,
     fullContent |-> <<>>,
     toolCallAccumulators |-> <<>>,
     internalToolCalls |-> <<>>,
     clientToolCalls |-> <<>>,
     stopReason |-> "end_turn"]

(***************************************************************************)
(* streamAnthropicWithToolDetection: helpers and event handlers.           *)
(***************************************************************************)
\* ensureMessageStart()
EnsureMessageStart(m) ==
    IF ~m.ss.messageStartSent
    THEN [Write(m, MessageStartEv) EXCEPT !.ss.messageStartSent = TRUE]
    ELSE m

\* startTextBlock()
StartTextBlock(m) ==
    IF ~m.rd.textBlockStarted
    THEN LET m1 == EnsureMessageStart(m)
             i  == m1.ss.currentBlockIndex
         IN  Write([m1 EXCEPT !.rd.textBlockStarted = TRUE,
                              !.rd.textBlockIndex = i,
                              !.ss.currentBlockIndex = i + 1],
                   BlockStartEv(i, "text", ""))
    ELSE m

\* startParsedThinkingBlock()
StartParsedThinkingBlock(m) ==
    IF ~m.rd.parsedThinkingBlockStarted
    THEN LET m1 == EnsureMessageStart(m)
             i  == m1.ss.currentBlockIndex
         IN  Write([m1 EXCEPT !.rd.parsedThinkingBlockStarted = TRUE,
                              !.rd.thinkingBlockStarted = TRUE,
                              !.rd.thinkingBlockIndex = i,
                              !.ss.currentBlockIndex = i + 1],
                   BlockStartEv(i, "thinking", ""))
    ELSE m

\* closeParsedThinkingBlock()
CloseParsedThinkingBlock(m) ==
    IF m.rd.parsedThinkingBlockStarted
    THEN [Write(m, BlockStopEv(m.rd.thinkingBlockIndex))
            EXCEPT !.rd.parsedThinkingBlockStarted = FALSE]
    ELSE m

\* emitThinkingDelta(content)
EmitThinkingDelta(m) ==
    LET m1 == StartParsedThinkingBlock(m)
    IN  Write(m1, BlockDeltaEv(m1.rd.thinkingBlockIndex, "thinking_delta"))

\* emitTextDelta(content)
EmitTextDelta(m) ==
    LET m1 == StartTextBlock(CloseParsedThinkingBlock(m))
    IN  Write(m1, BlockDeltaEv(m1.rd.textBlockIndex, "text_delta"))

\* `for (const segment of segments) if (segment.content) ...`
RECURSIVE EmitSegments(_, _)
EmitSegments(m, segs) ==
    IF segs = <<>> THEN m
    ELSE LET seg == Head(segs)
             m1  == IF Len(seg.content) = 0 THEN m
                    ELSE IF seg.type = "thinking" THEN EmitThinkingDelta(m)
                    ELSE EmitTextDelta(m)
         IN  EmitSegments(m1, Tail(segs))

VALID_CONTENT_TYPES == {"text", "image", "tool_use", "tool_result", "thinking"}

SERVER_TOOL_TYPES == {"server_tool_use", "server_tool_result"}

\* the block types the native upstream opens in this model
UpBlockTypes == {"text", "thinking", "tool_use", "server_tool_use"}

\* the start and the deltas of every tool_use block forwarded
ForwardToolEventAlways(name, webSearch) == TRUE

\* `if (!shouldHandleInternally(block.name))`: the start and the deltas of a
\* tool_use block are written to the caller for a client tool only
ForwardToolEvent(name, webSearch) == ~ShouldHandleInternally(name, webSearch)

\* no block is ever taken for the skipped one
SkippingNever(m, index) == FALSE

\* `streamState.skippingBlockIndex === event.index`
Skipping(m, index) == m.ss.skippingBlockIndex = index

\* case 'message_start'
A_OnMessageStart(m) ==
    IF ~m.ss.messageStartSent
    THEN [Write(m, MessageStartEv) EXCEPT !.ss.messageStartSent = TRUE]
    ELSE m

\* case 'content_block_start'
A_OnBlockStart(m, cfg, index, type, name, id) ==
    IF type \in SERVER_TOOL_TYPES \/ type \notin VALID_CONTENT_TYPES
    THEN [m EXCEPT !.ss.skippingBlockIndex = index]
    ELSE IF type = "thinking"
    THEN Write([m EXCEPT !.rd.nativeThinkingBlockActive = TRUE],
               BlockStartEv(index, "thinking", ""))
    ELSE IF type = "tool_use"
    THEN LET m1 == [m EXCEPT !.rd.currentToolUse =
                        [id |-> id, name |-> name, input |-> <<>>, index |-> index]]
         IN  IF ForwardToolEvent(name, cfg.webSearch)
             THEN Write(m1, BlockStartEv(index, "tool_use", name))
             ELSE m1
    ELSE IF type = "text" /\ cfg.thinking
    THEN m
    ELSE Write(m, BlockStartEv(index, type, ""))

\* case 'content_block_delta'
A_OnBlockDelta(m, cfg, index, dtype, payload) ==
    IF Skipping(m, index)
    THEN m
    ELSE IF dtype = "input_json_delta" /\ m.rd.currentToolUse # NoToolUse
    THEN LET m1 == [m EXCEPT !.rd.currentToolUse.input = Append(@, payload)]
         IN  IF ForwardToolEvent(m.rd.currentToolUse.name, cfg.webSearch)
             THEN Write(m1, BlockDeltaEv(index, dtype))
             ELSE m1
    ELSE IF dtype = "text_delta" /\ cfg.thinking
    THEN LET r == ProcessChunk(m.rd.reasoningParser, payload)
         IN  EmitSegments([m EXCEPT !.rd.reasoningParser = ParserOf(r)],
                          r.pendingOutput)
    ELSE \* thinking_delta, and text_delta without parsing: forwarded as is
         Write(m, BlockDeltaEv(index, dtype))

\* case 'content_block_stop'
A_OnBlockStop(m, cfg, index) ==
    IF Skipping(m, index)
    THEN [m EXCEPT !.ss.skippingBlockIndex = -1]
    ELSE IF m.rd.currentToolUse # NoToolUse
    THEN LET tu == m.rd.currentToolUse
             tc == [id |-> tu.id, name |-> tu.name]
             m0 == [m EXCEPT !.rd.currentToolUse = NoToolUse]
         IN  IF JsonParses(tu.input)
             THEN LET m1 == [m0 EXCEPT !.rd.fullContent = Append(@, tc)]
                  IN  IF ShouldHandleInternally(tu.name, cfg.webSearch)
                      THEN [m1 EXCEPT !.rd.internalToolCalls = Append(@, tc)]
                      ELSE Write([m1 EXCEPT !.rd.clientToolCalls = Append(@, tc)],
                                 BlockStopEv(index))
             ELSE m0   \* parse failure: a warning, the call is dropped
    ELSE IF m.rd.nativeThinkingBlockActive
    THEN Write([m EXCEPT !.rd.nativeThinkingBlockActive = FALSE], BlockStopEv(index))
    ELSE IF cfg.thinking
    THEN LET r  == Flush(m.rd.reasoningParser)
             m1 == EmitSegments([m EXCEPT !.rd.reasoningParser = ParserOf(r)],
                                r.pendingOutput)
             m2 == CloseParsedThinkingBlock(m1)
         IN  IF m2.rd.textBlockStarted
             THEN Write(m2, BlockStopEv(m2.rd.textBlockIndex))
             ELSE m2
    ELSE Write(m, BlockStopEv(index))

\* case 'message_delta'
A_OnMessageDelta(m, stopReason) == [m EXCEPT !.rd.stopReason = stopReason]

\* the hybrid format (choices[0].delta) on the native endpoint: reasoning_content
A_OnHybridReasoning(m) ==
    LET m1 == IF ~m.rd.thinkingBlockStarted
              THEN LET i  == m.ss.currentBlockIndex
                       m0 == [m EXCEPT !.rd.thinkingBlockStarted = TRUE,
                                       !.rd.thinkingBlockIndex = i,
                                       !.ss.currentBlockIndex = i + 1]
                   IN  Write(EnsureMessageStart(m0), BlockStartEv(i, "thinking", ""))
              ELSE m
    IN  Write(m1, BlockDeltaEv(m1.rd.thinkingBlockIndex, "thinking_delta"))

\* the hybrid format: content
A_OnHybridContent(m) ==
    LET m1 == IF m.rd.thinkingBlockStarted /\ ~m.rd.textBlockStarted
              THEN Write(m, BlockStopEv(m.rd.thinkingBlockIndex))
              ELSE m
        m2 == IF ~m1.rd.textBlockStarted
              THEN LET i  == m1.ss.currentBlockIndex
                       m0 == [m1 EXCEPT !.rd.textBlockStarted = TRUE,
                                        !.rd.textBlockIndex = i,
                                        !.ss.currentBlockIndex = i + 1]
                   IN  Write(EnsureMessageStart(m0), BlockStartEv(i, "text", ""))
              ELSE m1
    IN  Write(m2, BlockDeltaEv(m2.rd.textBlockIndex, "text_delta"))

\* the mapping of finish_reason to stopReason (both adapters)
StopReasonOf(finishReason) ==
    IF finishReason = "tool_calls" THEN "tool_use"
    ELSE IF finishReason = "stop" THEN "end_turn"
    ELSE finishReason

\* the hybrid format: finish_reason
A_OnHybridFinish(m, finishReason) ==
    LET m1 == [m EXCEPT !.rd.stopReason = StopReasonOf(finishReason)]
    IN  IF m1.rd.textBlockStarted
        THEN Write(m1, BlockStopEv(m1.rd.textBlockIndex))
        ELSE IF m1.rd.thinkingBlockStarted
        THEN Write(m1, BlockStopEv(m1.rd.thinkingBlockIndex))
        ELSE m1

(***************************************************************************)
(* streamBigModelWithToolDetection: helpers and chunk handlers.            *)
(***************************************************************************)
\* startParsedThinkingBlock()
B_StartParsedThinkingBlock(m) ==
    IF ~m.rd.parsedThinkingBlockStarted
    THEN LET i == m.rd.currentBlockIndex
         IN  Write([m EXCEPT !.rd.parsedThinkingBlockStarted = TRUE,
                             !.rd.parsedThinkingBlockIndex = i,
                             !.rd.currentBlockIndex = i + 1],
                   BlockStartEv(i, "thinking", ""))
    ELSE m

\* closeParsedThinkingBlock()
B_CloseParsedThinkingBlock(m) ==
    IF m.rd.parsedThinkingBlockStarted /\ ~m.rd.thinkingBlockStarted
    THEN [Write(m, BlockStopEv(m.rd.parsedThinkingBlockIndex))
            EXCEPT !.rd.parsedThinkingBlockStarted = FALSE]
    ELSE m

\* `if (!textBlockStarted) { ... content_block_start ... }` then the text delta
B_EmitText(m) ==
    LET m1 == IF ~m.rd.textBlockStarted
              THEN LET i == m.rd.currentBlockIndex
                   IN  Write([m EXCEPT !.rd.textBlockStarted = TRUE,
                                       !.rd.textBlockIndex = i,
                                       !.rd.currentBlockIndex = i + 1],
                             BlockStartEv(i, "text", ""))
              ELSE m
    IN  Write(m1, BlockDeltaEv(m1.rd.textBlockIndex, "text_delta"))

\* the segment loop of the content branch and of the final flush
RECURSIVE B_EmitSegments(_, _)
B_EmitSegments(m, segs) ==
    IF segs = <<>> THEN m
    ELSE LET seg == Head(segs)
             m1  == IF Len(seg.content) = 0 THEN m
                    ELSE IF seg.type = "thinking"
                    THEN LET t == B_StartParsedThinkingBlock(m)
                         IN  Write(t, BlockDeltaEv(t.rd.parsedThinkingBlockIndex,
                                                   "thinking_delta"))
                    ELSE B_EmitText(B_CloseParsedThinkingBlock(m))
         IN  B_EmitSegments(m1, Tail(segs))

\* `if (delta.reasoning_content && thinkingEnabled)`
B_OnReasoning(m) ==
    LET m1 == IF ~m.rd.thinkingBlockStarted
              THEN LET i == m.rd.currentBlockIndex
                   IN  Write([m EXCEPT !.rd.thinkingBlockStarted = TRUE,
                                       !.rd.thinkingBlockIndex = i,
                                       !.rd.currentBlockIndex = i + 1],
                             BlockStartEv(i, "thinking", ""))
              ELSE m
    IN  Write(m1, BlockDeltaEv(m1.rd.thinkingBlockIndex, "thinking_delta"))

\* `if (delta.content)`
B_OnContent(m, text) ==
    LET m1 == IF m.rd.thinkingBlockStarted /\ ~m.rd.textBlockStarted
              THEN Write(m, BlockStopEv(m.rd.thinkingBlockIndex))
              ELSE m
    IN  IF ~m1.rd.thinkingBlockStarted
        THEN LET r == ProcessChunk(m1.rd.reasoningParser, text)
             IN  B_EmitSegments([m1 EXCEPT !.rd.reasoningParser = ParserOf(r)],
                                r.pendingOutput)
        ELSE B_EmitText(m1)

\* `if (delta.tool_calls)`: one entry, for accumulator tcIndex (1-based here)
B_OnToolCall(m, tcIndex, id, name, arguments) ==
    LET accs == m.rd.toolCallAccumulators
        base == IF tcIndex > Len(accs)
                THEN Append(accs, [id |-> id, name |-> name, arguments |-> <<>>])
                ELSE accs
        acc  == base[tcIndex]
        acc1 == [acc EXCEPT !.name = IF name # "" THEN name ELSE @,
                            !.arguments = IF arguments # "" THEN Append(@, arguments)
                                          ELSE @]
    IN  [m EXCEPT !.rd.toolCallAccumulators = [base EXCEPT ![tcIndex] = acc1]]

\* `if (choice.finish_reason)`
B_OnFinish(m, finishReason) == [m EXCEPT !.rd.stopReason = StopReasonOf(finishReason)]

\* the accumulated tool calls whose arguments parse
RECURSIVE ParsedToolCalls(_)
ParsedToolCalls(accs) ==
    IF accs = <<>> THEN <<>>
    ELSE (IF JsonParses(Head(accs).arguments)
          THEN <<[id |-> Head(accs).id, name |-> Head(accs).name]>>
          ELSE <<>>) \o ParsedToolCalls(Tail(accs))

\* after the read loop: flush the parser, close the blocks, sort the tool calls
B_AfterLoop(m, cfg) ==
    LET r  == Flush(m.rd.reasoningParser)
        m1 == B_EmitSegments([m EXCEPT !.rd.reasoningParser = ParserOf(r)],
                             r.pendingOutput)
        m2 == B_CloseParsedThinkingBlock(m1)
        m3 == IF m2.rd.textBlockStarted
              THEN Write(m2, BlockStopEv(m2.rd.textBlockIndex))
              ELSE IF m2.rd.thinkingBlockStarted
              THEN Write(m2, BlockStopEv(m2.rd.thinkingBlockIndex))
              ELSE m2
        all == ParsedToolCalls(m3.rd.toolCallAccumulators)
    IN  [m3 EXCEPT !.rd.internalToolCalls = InternalCalls(all, cfg.webSearch),
                   !.rd.clientToolCalls = ClientCalls(all, cfg.webSearch)]

(***************************************************************************)
(* One logical streamed response: the frames of streamFromAnthropic /      *)
(* streamFromBigModel, each reading one upstream response.                 *)
(***************************************************************************)
\* maxToolIterations
StMaxToolIterations(config) ==
    IF config.maxIterations = 0 THEN DefaultMaxToolIterations ELSE config.maxIterations

\* toolIteration at the entry of the frame opened by the recursive call:
\* streamFromAnthropic passes options.toolIteration, streamFromBigModel passes
\* conversationHistory only and starts again from `let toolIteration = 0`
FrameToolIteration(adapter, toolIteration) ==
    IF adapter = "anthropic" THEN toolIteration ELSE 0

\* sendFinalEvents(res, usage, stopReason): the two events written before res.end()
SendFinalEvents(m, stopReason) ==
    Write(Write(m, Ev("message_delta", -1, stopReason, "")),
          Ev("message_stop", -1, "", ""))

\* the client tools streamed as blocks by streamFromBigModel
RECURSIVE B_StreamClientTools(_, _)
B_StreamClientTools(m, calls) ==
    IF calls = <<>> THEN m
    ELSE LET i  == m.rd.currentBlockIndex
             m1 == [m EXCEPT !.rd.currentBlockIndex = i + 1]
             m2 == Write(Write(Write(m1,
                       BlockStartEv(i, "tool_use", Head(calls).name)),
                       BlockDeltaEv(i, "input_json_delta")),
                       BlockStopEv(i))
         IN  B_StreamClientTools(m2, Tail(calls))

\* the tools of the request of a frame: `{...anthropicRequest, messages, stream}`
\* and `{...glmRequest, stream: true, messages}` keep the tools of the request
StRequestTools == TRUE

\* the assistant turn and the tool results pushed before the recursive call:
\* streamFromAnthropic pushes `content: result.fullContent`, which holds the
\* round's tool_use blocks and no text; streamFromBigModel pushes
\* `content: result.textContent || null` and the internal tool calls
StAppended(adapter, round, results) ==
    LET internal == round.internalToolCalls IN
    IF adapter = "anthropic"
    THEN <<[role |-> "assistant", uses |-> round.fullContent, results |-> <<>>,
            text |-> FALSE],
           [role |-> "user", uses |-> <<>>,
            results |-> [k \in 1..Len(internal) |->
                            [id |-> internal[k].id, content |-> results[k]]]]>>
    ELSE <<[role |-> "assistant", uses |-> internal, results |-> <<>>,
            text |-> round.textBlockStarted]>>
           \o [k \in 1..Len(internal) |->
                 [role |-> "tool", uses |-> <<>>,
                  results |-> <<[id |-> internal[k].id, content |-> results[k]]>>]]

UpIdle ==
    [dialect |-> "none", started |-> FALSE, nextIndex |-> 0, open |-> "none",
     finished |-> FALSE, hadTool |-> FALSE, content |-> FALSE, disorder |-> FALSE,
     badJson |-> FALSE]

M == [out |-> out, ss |-> ss, rd |-> rd]

\* the engine state after a handler
Becomes(m) ==
    /\ out' = m.out
    /\ ss' = m.ss
    /\ rd' = m.rd

StIdle ==
    /\ stAdapter = "anthropic"
    /\ stConfig = [maxIterations |-> 0, webSearch |-> FALSE, thinking |-> FALSE]
    /\ stPc = "idle"
    /\ stToolIteration = 0
    /\ stCalls = 0
    /\ stHeadersSent = FALSE
    /\ stHistory = <<>>
    /\ out = <<>>
    /\ ss = NewStreamState
    /\ rd = NewRound
    /\ up = UpIdle
    /\ stBudget = 0
    /\ stExceeded = FALSE
    /\ stReadFailed = FALSE
    /\ stStreak = 0
    /\ stToolsSent = FALSE

StInit ==
    /\ stAdapter \in {"anthropic", "bigmodel"}
    /\ stConfig \in [maxIterations : 1..MaxIterCfg, webSearch : BOOLEAN,
                     thinking : BOOLEAN]
    \* streamBigModelWithToolDetection: `const thinkingEnabled = true`
    /\ stAdapter = "bigmodel" => stConfig.thinking
    /\ stPc = "fetch"
    /\ stToolIteration = 0
    /\ stCalls = 0
    /\ stHeadersSent = FALSE
    /\ stHistory = <<[role |-> "user", uses |-> <<>>, results |-> <<>>]>>
    /\ out = <<>>
    /\ ss = NewStreamState
    /\ rd = NewRound
    /\ up = UpIdle
    /\ stBudget = MaxUpstream
    /\ stExceeded = FALSE
    /\ stReadFailed = FALSE
    /\ stStreak = 0
    /\ stToolsSent = FALSE

\* the entry of a frame up to the fetch: the SSE headers on the first frame
\* (streamFromBigModel sends message_start with them)
FrameEntry(m) ==
    IF ~stHeadersSent /\ stAdapter = "bigmodel" THEN Write(m, MessageStartEv) ELSE m

\* the frame is entered and the upstream answers the fetch with a stream
StFetchOk ==
    /\ stPc = "fetch"
    /\ stHeadersSent' = TRUE
    /\ stCalls' = stCalls + 1
    /\ Becomes([FrameEntry(M) EXCEPT !.rd = NewRound])
    /\ \E d \in IF stAdapter = "anthropic" THEN {"native", "hybrid"} ELSE {"chunks"} :
          up' = [UpIdle EXCEPT !.dialect = d, !.disorder = up.disorder,
                               !.badJson = up.badJson]
    /\ stPc' = "reading"
    /\ stToolsSent' = StRequestTools
    /\ UNCHANGED <<stAdapter, stConfig, stToolIteration, stHistory, stBudget,
                   stExceeded, stReadFailed, stStreak>>
    /\ UNCHANGED <<spVars, lpVars, brVars, rcVars, msVars, dcVars, rqVars, lcVars>>

\* the fetch rejects, times out or answers with a non-2xx status: the throw is
\* caught by the frame, which sends an error event and ends the response
StFetchFails ==
    /\ stPc = "fetch"
    /\ stHeadersSent' = TRUE
    /\ stCalls' = stCalls + 1
    /\ Becomes(Write(FrameEntry(M), ErrorEv("api_error")))
    /\ stPc' = "done"
    /\ stToolsSent' = StRequestTools
    /\ UNCHANGED <<stAdapter, stConfig, stToolIteration, stHistory, up, stBudget,
                   stExceeded, stReadFailed, stStreak>>
    /\ UNCHANGED <<spVars, lpVars, brVars, rcVars, msVars, dcVars, rqVars, lcVars>>

StFrame == <<stAdapter, stConfig, stToolIteration, stCalls, stHeadersSent,
             stHistory, stExceeded, stReadFailed, stStreak, stToolsSent, stPc>>

Reading(adapter, dialect) ==
    /\ stPc = "reading"
    /\ stAdapter = adapter
    /\ up.dialect = dialect
    /\ ~up.finished

\* ---- the native dialect on the native endpoint ----
StA_MessageStart ==
    /\ Reading("anthropic", "native")
    /\ ~up.started
    /\ Becomes(A_OnMessageStart(M))
    /\ up' = [up EXCEPT !.started = TRUE]
    /\ UNCHANGED <<StFrame, stBudget>>
    /\ UNCHANGED <<spVars, lpVars, brVars, rcVars, msVars, dcVars, rqVars, lcVars>>

StA_BlockStart ==
    /\ Reading("anthropic", "native")
    /\ up.started /\ up.open = "none" /\ stBudget > 0
    /\ \E type \in UpBlockTypes :
       \E name \in IF type = "tool_use" THEN StreamToolNames ELSE {""} :
          /\ Becomes(A_OnBlockStart(M, stConfig, up.nextIndex, type, name,
                                    <<stCalls, up.nextIndex>>))
          /\ up' = [up EXCEPT !.open = type,
                              !.hadTool = @ \/ type = "tool_use",
                              !.content = @ \/ type = "text"]
    /\ stBudget' = stBudget - 1
    /\ UNCHANGED StFrame
    /\ UNCHANGED <<spVars, lpVars, brVars, rcVars, msVars, dcVars, rqVars, lcVars>>

\* the delta type and the payloads of the block type the upstream has open
DeltaTypeOf(type) ==
    IF type = "text" THEN "text_delta"
    ELSE IF type = "thinking" THEN "thinking_delta"
    ELSE "input_json_delta"

PayloadsOf(type) ==
    IF type = "text" THEN TextChunks
    ELSE IF type = "thinking" THEN {<<"a">>}
    ELSE JsonFragments

StA_BlockDelta ==
    /\ Reading("anthropic", "native")
    /\ up.open # "none" /\ stBudget > 0
    /\ \E payload \in PayloadsOf(up.open) :
          Becomes(A_OnBlockDelta(M, stConfig, up.nextIndex, DeltaTypeOf(up.open),
                                 payload))
    /\ stBudget' = stBudget - 1
    /\ UNCHANGED <<StFrame, up>>
    /\ UNCHANGED <<spVars, lpVars, brVars, rcVars, msVars, dcVars, rqVars, lcVars>>

StA_BlockStop ==
    /\ Reading("anthropic", "native")
    /\ up.open # "none" /\ stBudget > 0
    /\ Becomes(A_OnBlockStop(M, stConfig, up.nextIndex))
    /\ up' = [up EXCEPT !.open = "none", !.nextIndex = @ + 1,
                        !.badJson = @ \/ (up.open = "tool_use"
                                             /\ ~JsonParses(rd.currentToolUse.input))]
    /\ stBudget' = stBudget - 1
    /\ UNCHANGED StFrame
    /\ UNCHANGED <<spVars, lpVars, brVars, rcVars, msVars, dcVars, rqVars, lcVars>>

\* message_delta (and the message_stop after it, which changes nothing)
StA_MessageDelta ==
    /\ Reading("anthropic", "native")
    /\ up.started /\ up.open = "none"
    /\ \E stopReason \in IF up.hadTool THEN {"tool_use"} ELSE {"end_turn", "max_tokens"} :
          Becomes(A_OnMessageDelta(M, stopReason))
    /\ up' = [up EXCEPT !.finished = TRUE]
    /\ UNCHANGED <<StFrame, stBudget>>
    /\ UNCHANGED <<spVars, lpVars, brVars, rcVars, msVars, dcVars, rqVars, lcVars>>

\* ---- the hybrid dialect on the native endpoint ----
StA_HybridReasoning ==
    /\ Reading("anthropic", "hybrid")
    /\ stBudget > 0
    /\ Becomes(A_OnHybridReasoning(M))
    /\ up' = [up EXCEPT !.disorder = @ \/ up.content]
    /\ stBudget' = stBudget - 1
    /\ UNCHANGED StFrame
    /\ UNCHANGED <<spVars, lpVars, brVars, rcVars, msVars, dcVars, rqVars, lcVars>>

StA_HybridContent ==
    /\ Reading("anthropic", "hybrid")
    /\ stBudget > 0
    /\ Becomes(A_OnHybridContent(M))
    /\ up' = [up EXCEPT !.content = TRUE]
    /\ stBudget' = stBudget - 1
    /\ UNCHANGED StFrame
    /\ UNCHANGED <<spVars, lpVars, brVars, rcVars, msVars, dcVars, rqVars, lcVars>>

StA_HybridFinish ==
    /\ Reading("anthropic", "hybrid")
    /\ \E finishReason \in {"stop", "length"} :
          Becomes(A_OnHybridFinish(M, finishReason))
    /\ up' = [up EXCEPT !.finished = TRUE]
    /\ UNCHANGED <<StFrame, stBudget>>
    /\ UNCHANGED <<spVars, lpVars, brVars, rcVars, msVars, dcVars, rqVars, lcVars>>

\* ---- the delta-chunk dialect (BigModel) ----
StB_Reasoning ==
    /\ Reading("bigmodel", "chunks")
    /\ stBudget > 0
    /\ Becomes(B_OnReasoning(M))
    /\ up' = [up EXCEPT !.disorder = @ \/ up.content]
    /\ stBudget' = stBudget - 1
    /\ UNCHANGED StFrame
    /\ UNCHANGED <<spVars, lpVars, brVars, rcVars, msVars, dcVars, rqVars, lcVars>>

StB_Content ==
    /\ Reading("bigmodel", "chunks")
    /\ stBudget > 0
    /\ \E text \in TextChunks : Becomes(B_OnContent(M, text))
    /\ up' = [up EXCEPT !.content = TRUE]
    /\ stBudget' = stBudget - 1
    /\ UNCHANGED StFrame
    /\ UNCHANGED <<spVars, lpVars, brVars, rcVars, msVars, dcVars, rqVars, lcVars>>

\* a tool_calls entry: the first fragment of a new call (id, name, arguments)
\* or a further arguments fragment of the last one
StB_ToolCall ==
    /\ Reading("bigmodel", "chunks")
    /\ stBudget > 0
    /\ LET n == Len(rd.toolCallAccumulators) IN
         \/ \E name \in StreamToolNames, arguments \in JsonFragments \cup {""} :
               Becomes(B_OnToolCall(M, n + 1, <<stCalls, n>>, name, arguments))
         \/ /\ n > 0
            /\ \E arguments \in JsonFragments :
                  Becomes(B_OnToolCall(M, n, <<stCalls, n - 1>>, "", arguments))
    /\ up' = [up EXCEPT !.hadTool = TRUE]
    /\ stBudget' = stBudget - 1
    /\ UNCHANGED StFrame
    /\ UNCHANGED <<spVars, lpVars, brVars, rcVars, msVars, dcVars, rqVars, lcVars>>

StB_Finish ==
    /\ Reading("bigmodel", "chunks")
    /\ \E finishReason \in IF up.hadTool THEN {"tool_calls"} ELSE {"stop", "length"} :
          Becomes(B_OnFinish(M, finishReason))
    /\ up' = [up EXCEPT !.finished = TRUE,
                        !.badJson = @ \/ \E k \in 1..Len(rd.toolCallAccumulators) :
                                             ~JsonParses(rd.toolCallAccumulators[k].arguments)]
    /\ UNCHANGED <<StFrame, stBudget>>
    /\ UNCHANGED <<spVars, lpVars, brVars, rcVars, msVars, dcVars, rqVars, lcVars>>

\* what follows the read loop in the reader, up to its return
AfterLoop(m) == IF stAdapter = "bigmodel" THEN B_AfterLoop(m, stConfig) ELSE m

\* reader.read() answers done: the upstream response is complete
StReadDone ==
    /\ stPc = "reading"
    /\ up.finished
    /\ Becomes(AfterLoop(M))
    /\ stPc' = "dispatch"
    /\ UNCHANGED <<stAdapter, stConfig, stToolIteration, stCalls, stHeadersSent,
                   stHistory, up, stBudget, stExceeded, stReadFailed, stStreak,
                   stToolsSent>>
    /\ UNCHANGED <<spVars, lpVars, brVars, rcVars, msVars, dcVars, rqVars, lcVars>>

\* reader.read() rejects: the error event is written and the loop is left by
\* `break`
StReadError ==
    /\ stPc = "reading"
    /\ Becomes(AfterLoop(Write(M, ErrorEv("stream_error"))))
    /\ stReadFailed' = TRUE
    /\ stPc' = "dispatch"
    /\ UNCHANGED <<stAdapter, stConfig, stToolIteration, stCalls, stHeadersSent,
                   stHistory, up, stBudget, stExceeded, stStreak, stToolsSent>>
    /\ UNCHANGED <<spVars, lpVars, brVars, rcVars, msVars, dcVars, rqVars, lcVars>>

\* internal tool calls, under the cap: execute them, push the turns, recurse
StContinue ==
    /\ stPc = "dispatch"
    /\ Len(rd.internalToolCalls) > 0
    /\ ~(stToolIteration + 1 > StMaxToolIterations(stConfig))
    /\ \E results \in [1..Len(rd.internalToolCalls) -> {"ok", "Error:"}] :
          stHistory' = stHistory \o StAppended(stAdapter, rd, results)
    /\ stToolIteration' = FrameToolIteration(stAdapter, stToolIteration + 1)
    /\ stStreak' = IF Len(rd.clientToolCalls) = 0 THEN stStreak + 1 ELSE 0
    /\ stPc' = "fetch"
    /\ UNCHANGED <<stAdapter, stConfig, stCalls, stHeadersSent, out, ss, rd, up,
                   stBudget, stExceeded, stReadFailed, stToolsSent>>
    /\ UNCHANGED <<spVars, lpVars, brVars, rcVars, msVars, dcVars, rqVars, lcVars>>

\* internal tool calls, over the cap: `sendFinalEvents(res, usage, 'end_turn')`
StCapReached ==
    /\ stPc = "dispatch"
    /\ Len(rd.internalToolCalls) > 0
    /\ stToolIteration + 1 > StMaxToolIterations(stConfig)
    /\ stToolIteration' = stToolIteration + 1
    /\ stExceeded' = TRUE
    /\ Becomes(SendFinalEvents(M, "end_turn"))
    /\ stPc' = "done"
    /\ UNCHANGED <<stAdapter, stConfig, stCalls, stHeadersSent, stHistory, up,
                   stBudget, stReadFailed, stStreak, stToolsSent>>
    /\ UNCHANGED <<spVars, lpVars, brVars, rcVars, msVars, dcVars, rqVars, lcVars>>

\* client tool calls only: the stream ends with stop reason tool_use
StClientTools ==
    /\ stPc = "dispatch"
    /\ Len(rd.internalToolCalls) = 0
    /\ Len(rd.clientToolCalls) > 0
    /\ Becomes(SendFinalEvents(
                  IF stAdapter = "bigmodel"
                  THEN B_StreamClientTools(M, rd.clientToolCalls) ELSE M,
                  "tool_use"))
    /\ stPc' = "done"
    /\ UNCHANGED <<stAdapter, stConfig, stToolIteration, stCalls, stHeadersSent,
                   stHistory, up, stBudget, stExceeded, stReadFailed, stStreak,
                   stToolsSent>>
    /\ UNCHANGED <<spVars, lpVars, brVars, rcVars, msVars, dcVars, rqVars, lcVars>>

\* no tool calls: normal completion
StComplete ==
    /\ stPc = "dispatch"
    /\ Len(rd.internalToolCalls) = 0
    /\ Len(rd.clientToolCalls) = 0
    /\ Becomes(SendFinalEvents(M, rd.stopReason))
    /\ stPc' = "done"
    /\ UNCHANGED <<stAdapter, stConfig, stToolIteration, stCalls, stHeadersSent,
                   stHistory, up, stBudget, stExceeded, stReadFailed, stStreak,
                   stToolsSent>>
    /\ UNCHANGED <<spVars, lpVars, brVars, rcVars, msVars, dcVars, rqVars, lcVars>>

(***************************************************************************)
(* Specifications.                                                         *)
(***************************************************************************)
SpNext == SpProcessChunk \/ SpFlush

\* the splitter alone
SplitterInit == SpInit /\ LpIdle /\ StIdle /\ BrIdle /\ RcIdle /\ MsIdle /\ DcIdle /\ RqIdle /\ LcIdle

SpecSplitter == SplitterInit /\ [][SpNext]_vars

LpNext == LpIssueCall \/ LpExceeded \/ LpCallFails \/ LpReply \/ LpFinalReply

\* one buffered request through a tool loop
LoopInit == LpInit /\ SpIdle /\ StIdle /\ BrIdle /\ RcIdle /\ MsIdle /\ DcIdle /\ RqIdle /\ LcIdle

SpecLoop == LoopInit /\ [][LpNext]_vars

StNext ==
    \/ StFetchOk \/ StFetchFails
    \/ StA_MessageStart \/ StA_BlockStart \/ StA_BlockDelta \/ StA_BlockStop
    \/ StA_MessageDelta
    \/ StA_HybridReasoning \/ StA_HybridContent \/ StA_HybridFinish
    \/ StB_Reasoning \/ StB_Content \/ StB_ToolCall \/ StB_Finish
    \/ StReadDone \/ StReadError
    \/ StContinue \/ StCapReached \/ StClientTools \/ StComplete

\* one streamed request through a streaming tool loop
StreamInit == StInit /\ SpIdle /\ LpIdle /\ BrIdle /\ RcIdle /\ MsIdle /\ DcIdle /\ RqIdle /\ LcIdle

SpecStream == StreamInit /\ [][StNext]_vars

BrNext == BrLoopRound \/ BrForcedFinal \/ BrTransform \/ BrClean

\* one backend reply through a round of the loop and the response transformer
BridgeInit == BrInit /\ SpIdle /\ LpIdle /\ StIdle /\ RcIdle /\ MsIdle /\ DcIdle /\ RqIdle /\ LcIdle

SpecBridge == BridgeInit /\ [][BrNext]_vars

RcNext == RcAttemptOk \/ RcAttemptThrows \/ RcSummarize \/ RcRetryOk \/ RcRetryThrows

\* one inbound request through handleMessages
RecoveryInit == RcInit /\ SpIdle /\ LpIdle /\ StIdle /\ BrIdle /\ MsIdle /\ DcIdle /\ RqIdle /\ LcIdle

SpecRecovery == RecoveryInit /\ [][RcNext]_vars

(***************************************************************************)
(* tools/mcp-client.js: ensureInitialized(url, config) and the module's    *)
(* cache of sessions, used by concurrent callers.                          *)
(***************************************************************************)
\* `initializedSessions.has(url)`
HasSession(sessions, url) == sessions[url] # "none"

MsInit ==
    /\ initializedSessions = [u \in McpUrls |-> "none"]
    /\ msCallers \in [1..MaxCallers -> [pc : {"idle"}, url : McpUrls, result : {"none"}]]
    /\ msInitRequests = [u \in McpUrls |-> 0]

\* ensureInitialized up to its first await: the cached session is returned, or
\* the `initialize` request is sent with fetch
MsEnsure(c) ==
    /\ msCallers[c].pc = "idle"
    /\ LET url == msCallers[c].url IN
       IF HasSession(initializedSessions, url)
       THEN /\ msCallers' = [msCallers EXCEPT ![c].pc = "returned",
                                              ![c].result = initializedSessions[url]]
            /\ UNCHANGED msInitRequests
       ELSE /\ msCallers' = [msCallers EXCEPT ![c].pc = "awaiting"]
            /\ msInitRequests' = [msInitRequests EXCEPT ![url] = @ + 1]
    /\ UNCHANGED initializedSessions
    /\ UNCHANGED <<spVars, lpVars, stVars, brVars, rcVars, dcVars, rqVars, lcVars>>

\* the `initialize` reply carries a session id: `initializedSessions.set(url,
\* sessionId); return sessionId` (the server names a session per request)
MsInitialized(c) ==
    /\ msCallers[c].pc = "awaiting"
    /\ LET url == msCallers[c].url
           sessionId == <<url, c>>
       IN  /\ initializedSessions' = [initializedSessions EXCEPT ![url] = sessionId]
           /\ msCallers' = [msCallers EXCEPT ![c].pc = "returned", ![c].result = sessionId]
    /\ UNCHANGED msInitRequests
    /\ UNCHANGED <<spVars, lpVars, stVars, brVars, rcVars, dcVars, rqVars, lcVars>>

\* the `initialize` request fails (status, no session header, error reply,
\* network error): `return null`, nothing is cached
MsInitFailed(c) ==
    /\ msCallers[c].pc = "awaiting"
    /\ msCallers' = [msCallers EXCEPT ![c].pc = "returned", ![c].result = "null"]
    /\ UNCHANGED <<initializedSessions, msInitRequests>>
    /\ UNCHANGED <<spVars, lpVars, stVars, brVars, rcVars, dcVars, rqVars, lcVars>>

MsEnsureStep == \E c \in 1..MaxCallers : MsEnsure(c)

MsInitializedStep == \E c \in 1..MaxCallers : MsInitialized(c)

MsInitFailedStep == \E c \in 1..MaxCallers : MsInitFailed(c)

MsNext == MsEnsureStep \/ MsInitializedStep \/ MsInitFailedStep

\* concurrent callers of ensureInitialized on one session cache
SessionInit == MsInit /\ SpIdle /\ LpIdle /\ StIdle /\ BrIdle /\ RcIdle /\ DcIdle /\ RqIdle /\ LcIdle

SpecSession == SessionInit /\ [][MsNext]_vars

(***************************************************************************)
(* A streamed response whose caller may disconnect: the frame               *)
(* (streamFromAnthropic / streamFromBigModel), the read loop and the tool  *)
(* continuation, as far as reads, writes and continuations are concerned.  *)
(***************************************************************************)
\* the upstream sends at most MaxChunks chunks per round
MaxChunks == 2

\* the frame continues at most MaxRounds times (maxToolIterations)
MaxRounds == 2

\* what the engine does is counted once the caller is gone
After(gone, counters, field, n) ==
    IF gone THEN [counters EXCEPT ![field] = @ + n] ELSE counters

DcInit ==
    /\ dcAdapter \in {"anthropic", "bigmodel"}
    /\ dcPc = "fetching"
    /\ dcClientGone = FALSE
    /\ dcIteration = 0
    /\ dcReads = 0
    /\ dcAfter = NothingAfter

\* the caller closes the connection; no 'close' handler is registered on req or
\* res by the streaming functions, so nothing else changes
DcClientDisconnects ==
    /\ dcPc \in {"fetching", "reading", "tools"}
    /\ ~dcClientGone
    /\ dcClientGone' = TRUE
    /\ UNCHANGED <<dcAdapter, dcPc, dcIteration, dcReads, dcAfter>>
    /\ UNCHANGED <<spVars, lpVars, stVars, brVars, rcVars, msVars, rqVars, lcVars>>

\* `response = await fetch(...)` of a round returns a body
DcFetched ==
    /\ dcPc = "fetching"
    /\ dcPc' = "reading"
    /\ dcReads' = 0
    /\ UNCHANGED <<dcAdapter, dcClientGone, dcIteration, dcAfter>>
    /\ UNCHANGED <<spVars, lpVars, stVars, brVars, rcVars, msVars, rqVars, lcVars>>

\* `readResult = await reader.read()` returns a chunk; its events are written
\* with res.write
DcReadChunk ==
    /\ dcPc = "reading"
    /\ dcReads < MaxChunks
    /\ dcReads' = dcReads + 1
    /\ \E written \in 0..1 :
         dcAfter' = After(dcClientGone,
                          After(dcClientGone, dcAfter, "reads", 1), "writes", written)
    /\ UNCHANGED <<dcAdapter, dcPc, dcClientGone, dcIteration>>
    /\ UNCHANGED <<spVars, lpVars, stVars, brVars, rcVars, msVars, rqVars, lcVars>>

\* reader.read() throws: the error event is written and the loop is left; the
\* frame then sends the final events
DcReadError ==
    /\ dcPc = "reading"
    /\ dcPc' = "ended"
    /\ dcAfter' = After(dcClientGone, After(dcClientGone, dcAfter, "reads", 1), "writes", 2)
    /\ UNCHANGED <<dcAdapter, dcClientGone, dcIteration, dcReads>>
    /\ UNCHANGED <<spVars, lpVars, stVars, brVars, rcVars, msVars, rqVars, lcVars>>

\* reader.read() returns done: the frame looks at the internal tool calls of
\* the round and goes on to execute them, or sends the final events
DcReadDone ==
    /\ dcPc = "reading"
    /\ \E internalToolCalls \in BOOLEAN :
         IF internalToolCalls /\ dcIteration + 1 <= MaxRounds
         THEN /\ dcIteration' = dcIteration + 1
              /\ dcPc' = "tools"
              /\ dcAfter' = After(dcClientGone, dcAfter, "reads", 1)
         ELSE /\ dcIteration' = IF internalToolCalls THEN dcIteration + 1 ELSE dcIteration
              /\ dcPc' = "ended"
              /\ dcAfter' = After(dcClientGone,
                                  After(dcClientGone, dcAfter, "reads", 1), "writes", 1)
    /\ UNCHANGED <<dcAdapter, dcClientGone, dcReads>>
    /\ UNCHANGED <<spVars, lpVars, stVars, brVars, rcVars, msVars, rqVars, lcVars>>

\* the internal tools are executed, their turns appended, and the frame calls
\* itself for the next round
DcContinue ==
    /\ dcPc = "tools"
    /\ dcPc' = "fetching"
    /\ dcAfter' = After(dcClientGone, dcAfter, "continuations", 1)
    /\ UNCHANGED <<dcAdapter, dcClientGone, dcIteration, dcReads>>
    /\ UNCHANGED <<spVars, lpVars, stVars, brVars, rcVars, msVars, rqVars, lcVars>>

DcNext ==
    \/ DcClientDisconnects \/ DcFetched \/ DcReadChunk \/ DcReadError
    \/ DcReadDone \/ DcContinue

\* one streamed response whose caller may go away
DisconnectInit == DcInit /\ SpIdle /\ LpIdle /\ StIdle /\ BrIdle /\ RcIdle /\ MsIdle /\ RqIdle /\ LcIdle

SpecDisconnect == DisconnectInit /\ [][DcNext]_vars

(***************************************************************************)
(* From the inbound request to the backend request: routing, conversion of *)
(* the messages, and the injections (reasoning directive, MCP instruction, *)
(* web tools).                                                             *)
(***************************************************************************)
\* an inbound conversation holds at most MaxTurns messages
MaxTurns == 3

\* an inbound message: its role; whether its content is text only, one
\* tool_result block only, or a tool_result block and text ("mixed"); whether
\* it holds an image or video block; whether its text holds a trigger phrase
UserShapes ==
    [role : {"user"}, kind : {"text"}, media : BOOLEAN, trigger : BOOLEAN]
      \cup [role : {"user"}, kind : {"mixed"}, media : {FALSE}, trigger : BOOLEAN]
      \cup [role : {"user"}, kind : {"results"}, media : BOOLEAN, trigger : {FALSE}]

AssistantShapes ==
    [role : {"assistant"}, kind : {"text"}, media : {FALSE}, trigger : {FALSE}]

RequestMessages ==
    UNION {[1..n -> UserShapes \cup AssistantShapes] : n \in 1..MaxTurns}

\* the tools the caller declares
ClientToolSets == {{}, {"Read", "WebSearch"}}

\* config.endpoint.mode ("legacy": none of the three modes) and the other
\* settings the transformers read
RequestConfigs ==
    [mode : {"anthropic", "openai", "bigmodel", "legacy"}, useAnthropic : BOOLEAN,
     webSearch : BOOLEAN, forceReasoning : BOOLEAN, mcpTriggered : BOOLEAN]

\* `const lastMessage = messages.length > 0 ? [messages[messages.length - 1]] : []`
LastMessage(messages) ==
    IF Len(messages) > 0 THEN <<messages[Len(messages)]>> ELSE <<>>

\* media looked for in every message handed over
DetectMedia(messages) == \E k \in 1..Len(messages) : messages[k].media

\* determineEndpoint that lets the configured mode decide for media too
DetermineEndpointByMode(hasImagesInCurrentMessage, mode, useAnthropic) ==
    IF mode \in {"anthropic", "openai", "bigmodel"} THEN mode
    ELSE IF useAnthropic THEN "anthropic" ELSE "openai"

\* determineEndpoint(hasImagesInCurrentMessage), with config.endpoint
DetermineEndpoint(hasImagesInCurrentMessage, mode, useAnthropic) ==
    IF hasImagesInCurrentMessage THEN "openai"
    ELSE IF mode \in {"anthropic", "openai", "bigmodel"} THEN mode
    ELSE IF useAnthropic THEN "anthropic" ELSE "openai"

\* selectModel(messages).model: config.models.vision or config.models.text
SelectModel(messages) == IF DetectMedia(messages) THEN "vision" ELSE "text"

\* the index of the last message of role user, 0 when there is none
LastUserIdx(messages) ==
    IF \E k \in 1..Len(messages) : messages[k].role = "user"
    THEN CHOOSE k \in 1..Len(messages) :
            /\ messages[k].role = "user"
            /\ \A j \in (k + 1)..Len(messages) : messages[j].role # "user"
    ELSE 0

\* `result.splice(idx, 0, a, b)`, with idx counted from 1
Splice(messages, idx, pair) ==
    SubSeq(messages, 1, idx - 1) \o pair \o SubSeq(messages, idx, Len(messages))

\* hasWebSearchTrigger(messages): the text of the last user message holds a
\* trigger phrase
HasWebSearchTrigger(messages) ==
    /\ LastUserIdx(messages) > 0
    /\ messages[LastUserIdx(messages)].trigger

\* the web tools injected whenever the flag is on
WebSearchEnabledByFlag(configEnabled, messages) == configEnabled

\* `userTriggered = configEnabled && hasWebSearchTrigger(messages)`
WebSearchEnabled(configEnabled, messages) ==
    configEnabled /\ HasWebSearchTrigger(messages)

\* a tool of the backend request: its name and where it comes from
Tool(name, origin) == [name |-> name, origin |-> origin]

\* getInjectedTools() / getInjectedToolsAnthropic()
InjectedTools == {Tool("web_search", "injected"), Tool("web_reader", "injected")}

\* buildToolsArray(clientTools, webSearchEnabled), and the same loop of
\* prepareAnthropicRequest
BuildToolsArray(clientTools, webSearchEnabled) ==
    LET duplicateToolNames ==
            IF webSearchEnabled
            THEN {"WebSearch", "websearch", "web_search", "WebFetch", "webfetch", "web_reader"}
            ELSE {}
    IN  (IF webSearchEnabled THEN InjectedTools ELSE {})
          \cup {Tool(n, "client") : n \in clientTools \ duplicateToolNames}

\* getTriggeredMcpToolsForInjection(messages).tools
McpTools(mcpTriggered) == IF mcpTriggered THEN {Tool("mcp_tool", "mcp")} ELSE {}

\* a message of the backend request: its role, what it is, and the inbound
\* message it was made of (0 for an injected message)
Msg(role, tag, from) == [role |-> role, tag |-> tag, from |-> from]

\* convertMessageToOpenAI(message), for the k-th inbound message
ConvertMessageToOpenAI(message, k) ==
    IF message.role = "user" /\ message.kind = "results"
    THEN <<Msg("tool", "original", k)>>
    ELSE IF message.role = "user" /\ message.kind = "mixed"
    THEN <<Msg("tool", "original", k), Msg("user", "original", k)>>
    ELSE <<Msg(message.role, "original", k)>>

RECURSIVE ConvertFrom(_, _)
\* the loop `for (const msg of messages) openaiMessages.push(...)`
ConvertFrom(messages, k) ==
    IF k > Len(messages) THEN <<>>
    ELSE ConvertMessageToOpenAI(messages[k], k) \o ConvertFrom(messages, k + 1)

\* the inbound messages as prepareAnthropicRequest passes them on
Unconverted(messages) ==
    [k \in 1..Len(messages) |-> Msg(messages[k].role, "original", k)]

ReasoningPair == <<Msg("user", "reasoning", 0), Msg("assistant", "reasoningAck", 0)>>

McpPair == <<Msg("user", "mcpInstruction", 0), Msg("assistant", "mcpAck", 0)>>

\* the directive put after the last user message
InjectReasoningPromptAfter(messages) ==
    IF LastUserIdx(messages) > 0
    THEN Splice(messages, LastUserIdx(messages) + 1, ReasoningPair)
    ELSE messages \o ReasoningPair

\* injectReasoningPrompt(messages) (OpenAI format)
InjectReasoningPrompt(messages) ==
    IF LastUserIdx(messages) > 0
    THEN Splice(messages, LastUserIdx(messages), ReasoningPair)
    ELSE messages \o ReasoningPair

\* injectReasoningPromptAnthropic(messages)
InjectReasoningPromptAnthropic(messages) ==
    IF Len(messages) = 0 THEN messages
    ELSE IF LastUserIdx(messages) > 0
    THEN Splice(messages, LastUserIdx(messages), ReasoningPair)
    ELSE messages

\* the MCP instruction and its acknowledgement, spliced in before the last
\* user message (both transformers)
InjectMcpInstruction(messages) ==
    IF LastUserIdx(messages) > 0
    THEN Splice(messages, LastUserIdx(messages), McpPair)
    ELSE messages

\* transformRequest(anthropicRequest).request
TransformRequest(request, cfg) ==
    LET openaiMessages   == ConvertFrom(request.messages, 1)
        webSearchEnabled == WebSearchEnabled(cfg.webSearch, request.messages)
        mcpTools         == McpTools(cfg.mcpTriggered)
        withReasoning    == IF cfg.forceReasoning /\ mcpTools = {}
                            THEN InjectReasoningPrompt(openaiMessages)
                            ELSE openaiMessages
    IN  [model    |-> SelectModel(LastMessage(request.messages)),
         messages |-> IF mcpTools # {} THEN InjectMcpInstruction(withReasoning)
                      ELSE withReasoning,
         tools    |-> BuildToolsArray(request.tools, webSearchEnabled) \cup mcpTools]

\* prepareAnthropicRequest(anthropicRequest).request
PrepareAnthropicRequest(request, cfg) ==
    LET webSearchEnabled == WebSearchEnabled(cfg.webSearch, request.messages)
        mcpTools         == McpTools(cfg.mcpTriggered)
        preparedMessages == IF cfg.forceReasoning
                            THEN InjectReasoningPromptAnthropic(Unconverted(request.messages))
                            ELSE Unconverted(request.messages)
    IN  [model    |-> SelectModel(LastMessage(request.messages)),
         messages |-> IF mcpTools # {} THEN InjectMcpInstruction(preparedMessages)
                      ELSE preparedMessages,
         tools    |-> BuildToolsArray(request.tools, webSearchEnabled) \cup mcpTools]

RqInit ==
    /\ rqRequest \in [messages : RequestMessages, tools : ClientToolSets]
    /\ rqConfig \in RequestConfigs
    /\ rqPc = "received"
    /\ rqEndpoint = "none"
    /\ rqBackend = NoBackendRequest

\* handleMessages: `determineEndpoint(detectImages(lastMessage))`
RqRoute ==
    /\ rqPc = "received"
    /\ rqEndpoint' = DetermineEndpoint(DetectMedia(LastMessage(rqRequest.messages)),
                                       rqConfig.mode, rqConfig.useAnthropic)
    /\ rqPc' = "routed"
    /\ UNCHANGED <<rqRequest, rqConfig, rqBackend>>
    /\ UNCHANGED <<spVars, lpVars, stVars, brVars, rcVars, msVars, dcVars, lcVars>>

\* handleOpenAIPath / handleBigModelPath: `await transformRequest(anthropicRequest)`
RqTransform ==
    /\ rqPc = "routed"
    /\ rqEndpoint \in {"openai", "bigmodel"}
    /\ rqBackend' = TransformRequest(rqRequest, rqConfig)
    /\ rqPc' = "prepared"
    /\ UNCHANGED <<rqRequest, rqConfig, rqEndpoint>>
    /\ UNCHANGED <<spVars, lpVars, stVars, brVars, rcVars, msVars, dcVars, lcVars>>

\* handleAnthropicPath: `await prepareAnthropicRequest(anthropicRequest)`
RqPrepare ==
    /\ rqPc = "routed"
    /\ rqEndpoint = "anthropic"
    /\ rqBackend' = PrepareAnthropicRequest(rqRequest, rqConfig)
    /\ rqPc' = "prepared"
    /\ UNCHANGED <<rqRequest, rqConfig, rqEndpoint>>
    /\ UNCHANGED <<spVars, lpVars, stVars, brVars, rcVars, msVars, dcVars, lcVars>>

RqNext == RqRoute \/ RqTransform \/ RqPrepare

\* one inbound request through routing and the request transformer
RequestInit == RqInit /\ SpIdle /\ LpIdle /\ StIdle /\ BrIdle /\ RcIdle /\ MsIdle /\ DcIdle /\ LcIdle

SpecRequest == RequestInit /\ [][RqNext]_vars

(***************************************************************************)
(* The local tool-server client: the pending-request table, the request    *)
(* timers, and the life of the subprocesses (src/unnamed/part_002).        *)
(***************************************************************************)
\* the wrappers stored in pendingRequests: `clearTimeout(timeoutId)`, then
\* resolve or reject
Settle(reqs, id, cause) ==
    [reqs EXCEPT ![id].timer = FALSE, ![id].settles = Append(@, cause)]

\* handleMessage that leaves the entry in the table
HandleMessageKeeping(pending, reqs, id) ==
    IF id \in pending
    THEN [pending |-> pending, reqs |-> Settle(reqs, id, "response")]
    ELSE [pending |-> pending, reqs |-> reqs]

\* handleMessage(message) for a message with that id
HandleMessage(pending, reqs, id) ==
    IF id \in pending
    THEN [pending |-> pending \ {id}, reqs |-> Settle(reqs, id, "response")]
    ELSE [pending |-> pending, reqs |-> reqs]

\* the callback of the request's setTimeout
OnRequestTimeout(pending, reqs, id) ==
    IF id \in pending
    THEN [pending |-> pending \ {id},
          reqs    |-> [reqs EXCEPT ![id].timer = FALSE,
                                   ![id].settles = Append(@, "timeout")]]
    ELSE [pending |-> pending, reqs |-> [reqs EXCEPT ![id].timer = FALSE]]

\* handleExit(code): reject every pending request, clear the table
HandleExit(pending, reqs) ==
    [pending |-> {},
     reqs    |-> [id \in DOMAIN reqs |->
                    IF id \in pending THEN Settle(reqs, id, "exit")[id] ELSE reqs[id]]]

\* cleanup(): `this.process = null`
Cleanup == 0

\* `this.process.stdin.writable`
Writable(n) == lcProcs[n].stdin = "open"

LcInit == LcIdle

\* spawn(), as initialize() calls it when there is no process
LcSpawn ==
    /\ lcProcess = 0
    /\ \E n \in 1..MaxSpawns, stubborn \in BOOLEAN :
          /\ lcProcs[n].state = "none"
          /\ \A m \in 1..(n - 1) : lcProcs[m].state # "none"
          /\ lcProcs' = [lcProcs EXCEPT ![n] = [state |-> "running", stdin |-> "open",
                                                stubborn |-> stubborn]]
          /\ lcProcess' = n
    /\ UNCHANGED <<lcRequestId, lcPending, lcIssued, lcReqs, lcLate, lcGraceTimers, lcShut>>
    /\ UNCHANGED <<spVars, lpVars, stVars, brVars, rcVars, msVars, dcVars, rqVars>>

\* sendRequest(method, params)
LcSendRequest ==
    /\ lcRequestId < MaxRequests
    /\ IF lcProcess = 0 \/ ~Writable(lcProcess)
       THEN UNCHANGED lcVars
       ELSE LET id == lcRequestId + 1 IN
            /\ lcRequestId' = id
            /\ lcReqs' = [lcReqs EXCEPT ![id].timer = TRUE]
            /\ lcPending' = lcPending \cup {id}
            /\ lcIssued' = Append(lcIssued, id)
            /\ UNCHANGED <<lcProcess, lcProcs, lcLate, lcGraceTimers, lcShut>>
    /\ UNCHANGED <<spVars, lpVars, stVars, brVars, rcVars, msVars, dcVars, rqVars>>

\* a line that carries the id of a request that was sent arrives on the
\* stdout of a subprocess, for the first time or again: handleOutput,
\* handleMessage
LcResponse(id) ==
    /\ id <= lcRequestId
    /\ LET t == HandleMessage(lcPending, lcReqs, id) IN
          /\ lcPending' = t.pending
          /\ lcReqs' = t.reqs
    /\ lcLate' = IF id \in lcPending THEN lcLate ELSE id
    /\ UNCHANGED <<lcProcess, lcProcs, lcRequestId, lcIssued, lcGraceTimers, lcShut>>
    /\ UNCHANGED <<spVars, lpVars, stVars, brVars, rcVars, msVars, dcVars, rqVars>>

\* the timer of a request fires
LcTimeout(id) ==
    /\ lcReqs[id].timer
    /\ LET t == OnRequestTimeout(lcPending, lcReqs, id) IN
          /\ lcPending' = t.pending
          /\ lcReqs' = t.reqs
    /\ UNCHANGED <<lcProcess, lcProcs, lcRequestId, lcIssued, lcLate, lcGraceTimers, lcShut>>
    /\ UNCHANGED <<spVars, lpVars, stVars, brVars, rcVars, msVars, dcVars, rqVars>>

\* a subprocess exits, killed or (unless it is stubborn) on its own, and its
\* 'exit' listener runs handleExit
LcExit(n) ==
    /\ \/ lcProcs[n].state = "killed"
       \/ lcProcs[n].state = "running" /\ ~lcProcs[n].stubborn
    /\ lcProcs' = [lcProcs EXCEPT ![n].state = "exited"]
    /\ LET t == HandleExit(lcPending, lcReqs) IN
          /\ lcPending' = t.pending
          /\ lcReqs' = t.reqs
    /\ lcProcess' = Cleanup
    /\ UNCHANGED <<lcRequestId, lcIssued, lcLate, lcGraceTimers, lcShut>>
    /\ UNCHANGED <<spVars, lpVars, stVars, brVars, rcVars, msVars, dcVars, rqVars>>

\* shutdown(): end stdin, arm the force-kill timer, cleanup()
LcShutdown ==
    /\ IF lcProcess = 0
       THEN UNCHANGED lcVars
       ELSE /\ lcProcs' = [lcProcs EXCEPT ![lcProcess].stdin = "ended"]
            /\ lcGraceTimers' = lcGraceTimers \cup {lcProcess}
            /\ lcShut' = lcShut \cup {lcProcess}
            /\ lcProcess' = Cleanup
            /\ UNCHANGED <<lcRequestId, lcPending, lcIssued, lcReqs, lcLate>>
    /\ UNCHANGED <<spVars, lpVars, stVars, brVars, rcVars, msVars, dcVars, rqVars>>

\* the force-kill timer armed by the shutdown of subprocess n fires:
\* `if (this.process) this.process.kill('SIGKILL')`
LcGraceFires(n) ==
    /\ n \in lcGraceTimers
    /\ lcGraceTimers' = lcGraceTimers \ {n}
    /\ lcProcs' = IF lcProcess # 0 /\ lcProcs[lcProcess].state = "running"
                  THEN [lcProcs EXCEPT ![lcProcess].state = "killed"]
                  ELSE lcProcs
    /\ UNCHANGED <<lcProcess, lcRequestId, lcPending, lcIssued, lcReqs, lcLate, lcShut>>
    /\ UNCHANGED <<spVars, lpVars, stVars, brVars, rcVars, msVars, dcVars, rqVars>>

LcResponseStep == \E id \in 1..MaxRequests : LcResponse(id)

LcTimeoutStep == \E id \in 1..MaxRequests : LcTimeout(id)

LcExitStep == \E n \in 1..MaxSpawns : LcExit(n)

LcGraceFiresStep == \E n \in 1..MaxSpawns : LcGraceFires(n)

LcNext ==
    \/ LcSpawn
    \/ LcSendRequest
    \/ LcResponseStep
    \/ LcTimeoutStep
    \/ LcExitStep
    \/ LcShutdown
    \/ LcGraceFiresStep

\* one local client from its construction on
LocalInit ==
    LcInit /\ SpIdle /\ LpIdle /\ StIdle /\ BrIdle /\ RcIdle /\ MsIdle /\ DcIdle /\ RqIdle

SpecLocal == LocalInit /\ [][LcNext]_vars

\* the exit of a subprocess that was killed or whose stdin was closed
LcExitDue(n) ==
    /\ lcProcs[n].state = "killed" \/ lcProcs[n].stdin = "ended"
    /\ LcExit(n)

\* the same client when every armed force-kill timer fires, a killed
\* subprocess exits, and a subprocess that heeds the end of its stdin exits
SpecLocalLive ==
    /\ LocalInit
    /\ [][LcNext]_vars
    /\ \A n \in 1..MaxSpawns : WF_vars(LcGraceFires(n)) /\ WF_vars(LcExitDue(n))

(***************************************************************************)
(* Properties of the Reasoning Tag Splitter (under SpecSplitter).          *)
(***************************************************************************)
\* C9: for an input whose markers come in well-formed pairs, fed to
\* processChunk in any chunks and then flushed once, the concatenation of the
\* contents of all emitted segments is the input with the markers stripped.
C9_RoundTrip ==
    (spPhase = "flushed" /\ WellFormed(spInput))
        => Contents(spOut) = Strip(spInput)

\* a well-formed input holding a pair, cut inside a marker, fed and flushed
C9_Witness ==
    /\ spPhase = "flushed"
    /\ WellFormed(spInput)
    /\ spCut
    /\ Len(Strip(spInput)) < Len(spInput)
    /\ Len(Strip(spInput)) > 0
    /\ Contents(spOut) = Strip(spInput)

\* C10: for a well-formed input and any chunking, every character between an
\* opening marker and its closing marker is emitted in a thinking segment and
\* every other non-marker character in a text segment.
C10_TypesMatchBoundaries ==
    (spPhase = "flushed" /\ WellFormed(spInput))
        => spOut = Classify(spInput)

\* both types emitted from a well-formed input cut inside a marker
C10_Witness ==
    /\ spPhase = "flushed"
    /\ WellFormed(spInput)
    /\ spCut
    /\ HasType(spOut, "thinking")
    /\ HasType(spOut, "text")
    /\ spOut = Classify(spInput)

\* C11: for the input "a<reasoning_content>b", which never closes the marker,
\* any chunking followed by flush emits in total the text "a" and then the
\* thinking "b": the marker is neither emitted nor emitted twice.
C11_UnclosedMarker ==
    (spPhase = "flushed" /\ spInput = UnclosedInput)
        => spOut = << <<"text", "a">>, <<"thinking", "b">> >>

\* that input, cut inside the marker, fed and flushed
C11_Witness ==
    /\ spPhase = "flushed"
    /\ spInput = UnclosedInput
    /\ spCut
    /\ spOut = << <<"text", "a">>, <<"thinking", "b">> >>

\* the last Len(held) typed characters of the output
LastOut(n) == SubSeq(spOut, Len(spOut) - n + 1, Len(spOut))

\* the text as typed characters of one type
Typed(type, text) == [i \in 1..Len(text) |-> <<type, text[i]>>]

\* what flush found in the buffer is a proper prefix of the marker that the
\* parser was looking for
HeldIsPartialMarker ==
    LET tag == IF spParser.inReasoning THEN REASONING_CLOSE_TAG
               ELSE REASONING_OPEN_TAG
    IN  /\ Len(spHeld) > 0
        /\ Len(spHeld) < Len(tag)
        /\ spHeld = Substring(tag, 0, Len(spHeld))

\* C12 as stated: a partial marker held back when the input ends is emitted
\* by flush literally in a text segment.
C12_HeldPartialIsText ==
    (spPhase = "flushed" /\ Len(spHeld) > 0)
        => /\ Len(spOut) >= Len(spHeld)
           /\ LastOut(Len(spHeld)) = Typed("text", spHeld)

\* C12: a partial marker held back when the input ends is emitted by flush
\* literally and never dropped, in a segment of the mode the parser is in:
\* text outside a reasoning block, thinking inside one.
C12_HeldPartialKeepsMode ==
    (spPhase = "flushed" /\ Len(spHeld) > 0)
        => /\ HeldIsPartialMarker
           /\ Len(spOut) >= Len(spHeld)
           /\ LastOut(Len(spHeld)) =
                  Typed(IF spParser.inReasoning THEN "thinking" ELSE "text", spHeld)

\* the input ended inside a reasoning block on a partial closing marker of
\* more than one character, and flush has emitted it
C12_Witness ==
    /\ spPhase = "flushed"
    /\ HeldIsPartialMarker
    /\ Len(spHeld) > 1
    /\ spParser.inReasoning
    /\ LastOut(Len(spHeld)) = Typed("thinking", spHeld)

(***************************************************************************)
(* Properties of the buffered tool loops (under SpecLoop).                 *)
(***************************************************************************)
\* the backend has answered every call so far with exactly one internal-only
\* tool call, and maxConsecutiveInternal is 1
OneInternalCallEveryRound ==
    /\ lpPc # "idle"
    /\ LpMaxConsecutiveInternal(lpConfig) = 1
    /\ lpOnlyInternal

\* C1 as stated: with a backend that always returns exactly one internal-only
\* tool call and maxConsecutiveInternal = 1, the loop makes at most 2 backend
\* calls (one normal, one forced final) and stays within the iteration cap.
C1_WithinTwoCalls ==
    OneInternalCallEveryRound
        => /\ lpCalls <= 2
           /\ lpIteration <= LpMaxIterations(lpVariant, lpConfig)

\* C1, amended: with such a backend and maxConsecutiveInternal = 1 the loop
\* ends within 3 backend calls: at most two rounds of the loop, the second of
\* which exceeds the streak and is followed by the one forced final call; the
\* iteration counter never exceeds the iteration cap, and a loop that ends
\* without the forced call ends with the cap's ToolExecutionError.
C1_WithinThreeCalls ==
    OneInternalCallEveryRound
        => /\ lpCalls <= 3
           /\ lpIteration <= 2
           /\ lpIteration <= LpMaxIterations(lpVariant, lpConfig)
           /\ lpPc = "top" => lpIteration <= 1
           /\ lpPc = "awaitFinal" => lpCalls = lpIteration + 1
           /\ lpPc = "returned" => lpResult.forced /\ lpCalls = 3
           /\ lpPc = "thrown" =>
                 /\ lpResult.kind = "ToolExecutionError"
                 /\ lpIteration = LpMaxIterations(lpVariant, lpConfig)
                 /\ lpCalls = lpIteration

\* two rounds of one internal-only call each, then the forced final answer
C1_Witness ==
    /\ OneInternalCallEveryRound
    /\ lpPc = "returned"
    /\ lpResult.forced
    /\ lpIteration = 2
    /\ lpCalls = 3

\* C13: once the internal-only streak exceeds the configured maximum the loop
\* does not start another round: it makes exactly one more backend call, the
\* only call beyond one per iteration, without tools, and returns the reply
\* to that call, also when the iteration cap is already reached.
C13_ForcedFinalCall ==
    LET exceeded == ExceedsStreak(lpConsecutive, LpMaxConsecutiveInternal(lpConfig))
    IN  /\ exceeded => /\ lpPc \in {"awaitFinal", "returned", "thrown"}
                       /\ lpCalls = lpIteration + 1
                       /\ ~lpToolsSent
        /\ (exceeded /\ lpPc = "returned") => lpResult.forced
        /\ ~exceeded => /\ lpCalls = lpIteration
                        /\ ~lpResult.forced

\* the streak exceeded the maximum in the last iteration the cap allows, and
\* the reply to the forced call was returned all the same
C13_Witness ==
    /\ ExceedsStreak(lpConsecutive, LpMaxConsecutiveInternal(lpConfig))
    /\ lpIteration = LpMaxIterations(lpVariant, lpConfig)
    /\ lpPc = "returned"
    /\ lpResult.forced
    /\ lpResult.kind = "response"
    /\ lpCalls = lpIteration + 1
    /\ ~lpToolsSent

\* every tool use and every tool result recorded in the conversation
RECURSIVE UsesIn(_)
UsesIn(messages) ==
    IF messages = <<>> THEN <<>> ELSE Head(messages).uses \o UsesIn(Tail(messages))

RECURSIVE ResultsIn(_)
ResultsIn(messages) ==
    IF messages = <<>> THEN <<>>
    ELSE Head(messages).results \o ResultsIn(Tail(messages))

ResultsFor(messages, id) ==
    {j \in 1..Len(ResultsIn(messages)) : ResultsIn(messages)[j].id = id}

\* C15: every internal tool call that was executed has exactly one result in
\* the conversation, a success or an error, there is no result without its
\* call, and no failure of a tool call ends the request with an error.
C15_OneResultPerInternalCall ==
    LET uses     == UsesIn(lpMessages)
        internal == {i \in 1..Len(uses) :
                        ShouldHandleInternally(uses[i].name, lpConfig.webSearch)}
    IN  /\ lpResult.kind # "ToolFailure"
        /\ \A i \in internal : Cardinality(ResultsFor(lpMessages, uses[i].id)) = 1
        /\ Len(ResultsIn(lpMessages)) = Cardinality(internal)

\* a round of two internal calls of which the first was rejected and the
\* second succeeded: both have their result and the loop went on
C15_Witness ==
    LET results == ResultsIn(lpMessages) IN
    /\ lpPc \in {"top", "awaitFinal", "returned"}
    /\ \E i, j \in 1..Len(results) :
          /\ results[i].id[1] = results[j].id[1]
          /\ results[i].id[2] < results[j].id[2]
          /\ results[i].content \in {"Error: rejected", "Error executing"}
          /\ results[j].content = "ok"

\* C18: a backend-proposed tool call that the loop classified as a client call,
\* and so did not execute, is a tool_use block of the response delivered to
\* the caller.
C18_ClientToolsPassedThrough ==
    (lpPc = "returned" /\ lpResult.kind = "response" /\ ~lpResult.forced)
        => \A i \in 1..Len(lpResult.proposed) :
              ~IsInternalTool(lpResult.proposed[i].name, lpConfig.webSearch)
                 => \E j \in 1..Len(lpResult.delivered) :
                       lpResult.delivered[j].id = lpResult.proposed[i].id

\* C19: the response transformer classifies every tool call it is handed as
\* the loop that returned the response classified it.
C19_SameClassificationEverywhere ==
    (lpVariant = "openai" /\ lpPc = "returned" /\ lpResult.kind = "response")
        => \A i \in 1..Len(lpResult.toolCalls) :
              TransformInternal(lpResult.toolCalls[i].name)
                 = IsInternalTool(lpResult.toolCalls[i].name, lpConfig.webSearch)

\* C16: in the tool execution of a round every call is started before the
\* settlement of any call of the round is awaited.
C16_AllStartedBeforeAnySettled ==
    \A i, j \in 1..Len(lpSchedule) :
        (lpSchedule[i][1] = "settled" /\ lpSchedule[j][1] = "start") => j < i

(***************************************************************************)
(* Properties of the streaming engine (under SpecStream), read off the     *)
(* events written to the caller.                                           *)
(***************************************************************************)
IsEv(e, name) == e.ev = name

Positions(name) == {p \in 1..Len(out) : IsEv(out[p], name)}

Starts == Positions("content_block_start")

\* the position after p of the next start of the same index, or past the end
NextStartOf(p) ==
    LET later == {q \in Starts : q > p /\ out[q].index = out[p].index}
    IN  IF later = {} THEN Len(out) + 1
        ELSE CHOOSE q \in later : \A r \in later : q <= r

\* the stops of the block started at position p
StopsOf(p) ==
    {q \in Positions("content_block_stop") :
        q > p /\ q < NextStartOf(p) /\ out[q].index = out[p].index}

\* the block started at position p is open at the end of out
IsOpen(p) == StopsOf(p) = {}

OpenBlocks(type) == {p \in Starts : out[p].kind = type /\ IsOpen(p)}

\* every upstream response so far sent its reasoning before its content and
\* tool calls whose arguments are JSON, and no read failed
Orderly == ~up.disorder /\ ~up.badJson /\ ~stReadFailed

EndedWithStop ==
    /\ stPc = "done"
    /\ Len(out) > 0
    /\ IsEv(out[Len(out)], "message_stop")

\* the response has ended the normal way after orderly upstream responses
EndedNormally == EndedWithStop /\ Orderly

\* C2: when the streaming loop exceeds the maximum iteration count, the
\* exchange ends with an error reported to the caller, never as a normally
\* completed response (no message_stop is sent).
C2_CapExceededIsFatal ==
    (stExceeded /\ Orderly)
        => /\ Positions("message_stop") = {}
           /\ Positions("error") # {}

\* C3: one logical streamed response performs at most maxIterations + 1
\* backend calls, whatever the backend proposes.
C3_BoundedBackendCalls ==
    Orderly => stCalls <= StMaxToolIterations(stConfig) + 1

\* C4: over one logical streamed response, continuations included, the
\* indices of the blocks started are strictly increasing, so that no index
\* is used for two blocks.
C4_IndicesStrictlyIncrease ==
    Orderly =>
      \A p \in Starts :
        /\ out[p].index >= 0
        /\ \A q \in Starts : q < p => out[q].index < out[p].index

\* C5: in a response that ended with message_stop, every block started is
\* stopped exactly once before it, and no delta of a block follows its stop
\* (stated where no read failed and reasoning came before content).
C5_EveryStartStoppedOnce ==
    (EndedWithStop /\ ~stReadFailed /\ ~up.disorder) =>
        \A p \in Starts :
            /\ Cardinality(StopsOf(p)) = 1
            /\ \A s \in StopsOf(p) :
                  \A d \in Positions("content_block_delta") :
                     ~(d > s /\ d < NextStartOf(p) /\ out[d].index = out[p].index)

\* C6: at no point of a streamed response are a text block and a thinking
\* block both open.
C6_TextAndThinkingExclusive ==
    Orderly => ~(OpenBlocks("text") # {} /\ OpenBlocks("thinking") # {})

\* the events between the message_start at 1 and the message_delta at n - 1
\* form (start, deltas, stop) groups
InGroups(n) ==
    \A p \in 2..(n - 2) :
        /\ out[p].ev \in {"content_block_start", "content_block_delta",
                          "content_block_stop"}
        /\ IsEv(out[p], "content_block_start") =>
              (p = 2 \/ IsEv(out[p - 1], "content_block_stop"))
        /\ ~IsEv(out[p], "content_block_start") =>
              /\ p > 2
              /\ ~IsEv(out[p - 1], "content_block_stop")
              /\ out[p - 1].index = out[p].index
        /\ (p = n - 2) => IsEv(out[p], "content_block_stop")

\* C7: the events of one logical response are one message_start, then
\* (start, deltas, stop) groups, then one message_delta, then one
\* message_stop; no block event comes before message_start and nothing
\* follows message_stop.
C7_EventGrammar ==
    /\ (Len(out) > 0 /\ Orderly /\ Positions("error") = {})
          => IsEv(out[1], "message_start")
    /\ \A p \in Positions("message_stop") : p = Len(out)
    /\ EndedNormally =>
          /\ Len(out) >= 3
          /\ Positions("message_start") = {1}
          /\ Positions("message_delta") = {Len(out) - 1}
          /\ InGroups(Len(out))

\* C8: after an upstream read has failed in the middle of the response there
\* is exactly one error event, and no message_delta or message_stop after it.
C8_ReadFailureEndsWithError ==
    stReadFailed =>
        /\ Cardinality(Positions("error")) = 1
        /\ \A e \in Positions("error") :
              \A p \in Positions("message_delta") \cup Positions("message_stop") :
                 p < e
\* the frame at its fetch is the one opened by the recursive call that
\* followed a round of tool executions; rd still holds that round
AfterRound == stPc = "fetch" /\ stCalls > 0

\* C14: in the streaming loops, once more than maxConsecutiveInternal rounds
\* in a row proposed internal tool calls only, the backend call that follows
\* is made without tools (stated for every value maxConsecutiveInternal can
\* be configured to, since the streaming loops do not read it, and for runs
\* that stay within the iteration cap).
C14_StreamForcesFinalAnswer ==
    \A maxConsecutiveInternal \in 1..MaxConsecCfg :
        (/\ stStreak > maxConsecutiveInternal
         /\ Orderly
         /\ stCalls <= StMaxToolIterations(stConfig) + 1
         /\ stPc \in {"reading", "dispatch", "done"})
            => ~stToolsSent

\* C17: in the streaming loops a round that proposed both internal and client
\* tool calls ends the response in that round: no frame is opened after it.
C17_MixedRoundReturns ==
    (AfterRound /\ Orderly)
        => ~(Len(rd.internalToolCalls) > 0 /\ Len(rd.clientToolCalls) > 0)

IdsOf(calls) == {calls[k].id : k \in 1..Len(calls)}

\* the upstream opened a text block in the response of this round (native
\* endpoint)
UpstreamSentText == up.dialect = "native" /\ up.content

\* C20: after a round of internal calls only, the conversation of the next
\* backend call ends with the assistant turn that holds the round's content,
\* its text block if the upstream sent one and all its tool-use blocks,
\* followed by one result for each of the round's calls, in order.
C20_HistoryHoldsTheRound ==
    (AfterRound /\ Orderly /\ Len(rd.clientToolCalls) = 0)
        => LET n       == Len(rd.internalToolCalls)
               a       == IF stAdapter = "anthropic"
                          THEN Len(stHistory) - 1 ELSE Len(stHistory) - n
               turn    == stHistory[a]
               results == ResultsIn(SubSeq(stHistory, a + 1, Len(stHistory)))
           IN  /\ turn.role = "assistant"
               /\ IdsOf(turn.uses) = IdsOf(rd.internalToolCalls)
               /\ UpstreamSentText => turn.text
               /\ Len(results) = n
               /\ \A k \in 1..n : results[k].id = rd.internalToolCalls[k].id

\* the native upstream has a tool_use block open whose name resolves to an
\* internal tool
InternalToolBlockOpen ==
    /\ Reading("anthropic", "native")
    /\ up.open = "tool_use"
    /\ ShouldHandleInternally(rd.currentToolUse.name, stConfig.webSearch)

\* s is t with one more fragment
OneMoreFragment(s, t) == Len(s) = Len(t) + 1 /\ SubSeq(s, 1, Len(t)) = t

ForeignTypes == UpBlockTypes \ VALID_CONTENT_TYPES

\* the native upstream has a block of a foreign kind open
ForeignBlockOpen == Reading("anthropic", "native") /\ up.open \in ForeignTypes

\* C24: when the native-dialect adapter meets a block of a foreign kind at
\* upstream index i it sets the skipping index to i and writes nothing; every
\* delta addressed to i and the stop of i write nothing either, and the stop
\* clears the skipping index, so that (where no read failed) no skipping index
\* is left while a block of another kind is read.
C24_ForeignBlockSkipped ==
    /\ [][/\ (/\ Reading("anthropic", "native")
              /\ up.open = "none"
              /\ up'.open \in ForeignTypes)
                => /\ out' = out
                   /\ ss'.skippingBlockIndex = up.nextIndex
          /\ (ForeignBlockOpen /\ stPc' = "reading")
                => /\ out' = out
                   /\ rd' = rd
                   /\ up'.open \in ForeignTypes
                         => ss'.skippingBlockIndex = up.nextIndex
                   /\ up'.open = "none" => ss'.skippingBlockIndex = -1]_vars
    /\ []((/\ Reading("anthropic", "native")
           /\ ~stReadFailed
           /\ up.open \notin ForeignTypes)
              => ss.skippingBlockIndex = -1)

\* a foreign block at index 0 (start, one delta, stop) of which nothing was
\* written, followed by a thinking block at index 1 whose start was forwarded
C24_Witness ==
    /\ Reading("anthropic", "native")
    /\ stCalls = 1
    /\ stBudget = MaxUpstream - 4
    /\ ~up.hadTool
    /\ up.nextIndex = 1
    /\ up.open = "thinking"
    /\ ss.skippingBlockIndex = -1
    /\ out = <<MessageStartEv, BlockStartEv(1, "thinking", "")>>

\* C25: a tool call whose accumulated arguments fail to parse is discarded
\* alone: the response still ends with message_stop, and it reads as if the
\* call had not been proposed, so that no block of the discarded call is left
\* with the caller: every tool_use block started is also stopped (stated where
\* no read failed and reasoning came before content).
C25_BadArgumentsDropOneCall ==
    (EndedWithStop /\ up.badJson /\ ~stReadFailed /\ ~up.disorder)
        => \A p \in Starts :
              out[p].kind = "tool_use" => Cardinality(StopsOf(p)) = 1

(***************************************************************************)
(* Properties of the response transformers (under SpecBridge).             *)
(***************************************************************************)
Sent == brPc = "sent"

ClientToolUseRemains == Len(brOutbound.toolUses) > 0

\* the mapping of the finish signal as the specification words it
MappedFinish(finish) ==
    CASE finish = "stop" -> "end_turn"
      [] finish = "length" -> "max_tokens"
      [] finish \in {"tool_calls", "function_call"} -> "tool_use"
      [] finish = "content_filter" -> "end_turn"
      [] OTHER -> "end_turn"

\* C21 (as stated): the outbound stop_reason is tool_use if a client-facing
\* tool_use remains in the outbound content, on either path; otherwise, where
\* the backend speaks in finish signals, it is the mapped finish signal.
C21_StopReasonRecomputed ==
    Sent => /\ ClientToolUseRemains => brOutbound.stopReason = "tool_use"
            /\ (~ClientToolUseRemains /\ brPath = "openai")
                  => brOutbound.stopReason = MappedFinish(brBackend.finish)

\* C21 (amended): on the OpenAI-style path the outbound stop_reason is tool_use
\* if a client-facing tool_use remains and the mapped finish signal otherwise;
\* on the native path the backend's stop_reason is kept, except that tool_use
\* becomes end_turn when no client-facing tool_use remains.
C21_StopReasonPerPath ==
    Sent => /\ brPath = "openai"
                  => brOutbound.stopReason =
                        IF ClientToolUseRemains THEN "tool_use"
                        ELSE MappedFinish(brBackend.finish)
            /\ brPath = "anthropic"
                  => brOutbound.stopReason =
                        IF brBackend.finish = "tool_use" /\ ~ClientToolUseRemains
                        THEN "end_turn" ELSE brBackend.finish

C21_Witness ==
    /\ Sent /\ brPath = "anthropic" /\ brBackend.finish = "max_tokens"
    /\ ClientToolUseRemains /\ brOutbound.stopReason = "max_tokens"

\* C22 (as stated): a finish signal of "length" gives stop_reason max_tokens,
\* whether or not client tool calls are present.
C22_LengthAlwaysMaxTokens ==
    (Sent /\ brPath = "openai" /\ brBackend.finish = "length")
        => brOutbound.stopReason = "max_tokens"

\* C22 (amended): a finish signal of "length" gives stop_reason max_tokens when
\* no client tool call remains in the response, and tool_use when one does.
C22_LengthMaxTokensWithoutTools ==
    (Sent /\ brPath = "openai" /\ brBackend.finish = "length")
        => brOutbound.stopReason =
              IF ClientToolUseRemains THEN "tool_use" ELSE "max_tokens"

C22_Witness ==
    /\ Sent /\ brPath = "openai" /\ brBackend.finish = "length"
    /\ ClientToolUseRemains /\ brOutbound.stopReason = "tool_use"

\* the proxy executed the call tc of the reply
BrExecuted(tc) ==
    /\ brHistory # <<>>
    /\ \E k \in 1..Len(InternalCalls(brBackend.toolCalls, brWebSearch)) :
          InternalCalls(brBackend.toolCalls, brWebSearch)[k].id = tc.id

\* the call tc of the reply was handed to the caller as a tool_use block
BrDelivered(tc) ==
    Sent /\ \E k \in 1..Len(brOutbound.toolUses) : brOutbound.toolUses[k].id = tc.id

ErrorResultFor(tc) ==
    \E j \in ResultsFor(brHistory, tc.id) :
        ResultsIn(brHistory)[j].content = "Error: Invalid JSON"

\* C26: a tool call whose arguments are not JSON, once the proxy has acted on
\* it (executed it, or handed it to the caller), has an error tool result in
\* the conversation history.
C26_MalformedArgumentsReported ==
    \A k \in 1..Len(brBackend.toolCalls) :
        LET tc == brBackend.toolCalls[k] IN
        (~tc.argsOk /\ (BrExecuted(tc) \/ BrDelivered(tc))) => ErrorResultFor(tc)

(***************************************************************************)
(* Properties of the context recovery (under SpecRecovery).                *)
(***************************************************************************)
RecoveryAttempted == rcPc \in {"summarize", "retry"} \/ rcSummaryCall # "none"

RetryIssued == Len(rcAttempts) = 2

RetryFailed == rcPc = "done" /\ RetryIssued /\ Len(rcErrors) = 2

\* C27: recovery is attempted only when the first attempt's error is a context
\* limit error, the conversation has more than one message and streaming was
\* not requested; when it is attempted the request is retried exactly once, and
\* a failing retry is not retried.
C27_RecoveryOnlyOnce ==
    /\ Len(rcAttempts) <= 2
    /\ (RecoveryAttempted \/ RetryIssued)
          => /\ rcErrors[1].class = "ContextLimitError"
             /\ Len(rcRequest.messages) > 1
             /\ ~rcRequest.stream
    /\ (rcPc = "done" /\ RecoveryAttempted) => RetryIssued

C27_Witness ==
    /\ RetryFailed
    /\ rcErrors[2] = [class |-> "ContextLimitError", attempt |-> 2]

\* C28: the retry carries exactly one message, of role assistant, holding the
\* summary, and none of the original messages.
C28_RetryCarriesSummaryOnly ==
    RetryIssued
        => /\ Len(rcAttempts[2]) = 1
           /\ rcAttempts[2][1] = [role |-> "assistant", content |-> rcSummary]
           /\ rcSummary \in {"summary", "empty", "fallback"}
           /\ \A k \in 1..Len(rcAttempts[2]) : rcAttempts[2][k].content # "original"

C28_Witness ==
    /\ RetryIssued /\ Len(rcRequest.messages) = MaxMessages
    /\ rcSummary = "summary" /\ rcRes = <<ResponseEnvelope(2)>>

\* C29: when the retry fails too, exactly one error envelope is sent, and it
\* renders the retry's error, not the first attempt's.
C29_RetryErrorSurfaced ==
    RetryFailed
        => /\ Len(rcRes) = 1
           /\ rcRes[1].kind = "error"
           /\ rcRes[1].attempt = 2
           /\ rcRes[1].class = rcErrors[2].class

C29_Witness ==
    /\ RetryFailed
    /\ rcErrors[2].class = "GlmApiError"
    /\ rcRes = <<[kind |-> "error", attempt |-> 2, class |-> "GlmApiError"]>>

\* C30: when the summary call fails, the fallback summary is substituted and
\* the retry takes place with it; no error is sent for the failed summary.
C30_FallbackSummaryRetried ==
    rcSummaryCall = "throws"
        => /\ rcSummary = "fallback"
           /\ rcPc \in {"retry", "done"}
           /\ \A k \in 1..Len(rcRes) : rcRes[k].attempt = 2
           /\ rcPc = "done"
                 => /\ RetryIssued
                    /\ rcAttempts[2] = <<[role |-> "assistant", content |-> "fallback"]>>

C30_Witness ==
    /\ rcSummaryCall = "throws" /\ rcPc = "done" /\ RetryIssued
    /\ rcAttempts[2][1].content = "fallback" /\ rcRes = <<ResponseEnvelope(2)>>

\* C31: the summary is generated with exactly one extra backend call, whose
\* request is the summarization prompt as the request transformer prepared it,
\* on every endpoint.
C31_SummaryCallCarriesPrompt ==
    rcSummaryCall # "none"
        => /\ Len(rcSummaryRequests) = 1
           /\ rcSummaryRequests[1].messages = "summaryPrompt"

(***************************************************************************)
(* Properties of the session cache (under SpecSession).                    *)
(***************************************************************************)
\* C32: for every key of the session cache at most one initialization is
\* performed, also when several callers use an uninitialized key at once.
C32_OneInitializationPerKey ==
    \A u \in McpUrls :
        (\A c \in 1..MaxCallers :
            msCallers[c].url = u => msCallers[c].result # "null")
          => msInitRequests[u] <= 1

(***************************************************************************)
(* Properties of a streamed response after a disconnect (SpecDisconnect).  *)
(***************************************************************************)
\* C33: once the caller has disconnected, the engine reads nothing more from
\* the upstream, writes nothing more to the caller and starts no further tool
\* continuation.
C33_DisconnectStopsTheStream ==
    dcClientGone
        => /\ dcAfter.reads = 0
           /\ dcAfter.writes = 0
           /\ dcAfter.continuations = 0

(***************************************************************************)
(* Properties of routing and of the request transformers                   *)
(***************************************************************************)
RqLast == rqRequest.messages[Len(rqRequest.messages)]

RqRouted == rqPc \in {"routed", "prepared"}

RqPrepared == rqPc = "prepared"

\* C34: routing follows the table: media in the last message selects the
\* media-capable variant (the OpenAI-style endpoint with the vision model)
\* whatever the mode; without media in the last message a valid mode selects
\* its own endpoint and any other mode the endpoint of the fallback flag, and
\* the text model is used, media in earlier messages notwithstanding.
C34_RoutingFollowsTable ==
    RqRouted =>
        /\ RqLast.media =>
              /\ rqEndpoint = "openai"
              /\ RqPrepared => rqBackend.model = "vision"
        /\ ~RqLast.media =>
              /\ rqConfig.mode \in {"anthropic", "openai", "bigmodel"}
                    => rqEndpoint = rqConfig.mode
              /\ rqConfig.mode \notin {"anthropic", "openai", "bigmodel"}
                    => rqEndpoint = IF rqConfig.useAnthropic THEN "anthropic" ELSE "openai"
              /\ RqPrepared => rqBackend.model = "text"

\* media only in an earlier message, mode native: routed natively with the
\* text model
C34_Witness ==
    /\ RqPrepared
    /\ Len(rqRequest.messages) = 3
    /\ rqRequest.messages[1].media
    /\ ~RqLast.media
    /\ rqConfig.mode = "anthropic"
    /\ rqEndpoint = "anthropic"
    /\ rqBackend.model = "text"

\* no two neighbouring messages have the same role
Alternates(messages) ==
    \A k \in 1..(Len(messages) - 1) : messages[k].role # messages[k + 1].role

\* the positions of the reasoning directive in the backend request
DirectiveAt == {p \in 1..Len(rqBackend.messages) : rqBackend.messages[p].tag = "reasoning"}

\* the request has a user message
RqHasUser == LastUserIdx(rqRequest.messages) > 0

AlternationKept ==
    Alternates(rqRequest.messages) => Alternates(rqBackend.messages)

InjectedWebTools == {t \in rqBackend.tools : t.origin = "injected"}

\* C36: the backend request carries injected web tools only when the feature
\* flag is on and the last user message of the request holds a trigger
\* phrase.
C36_WebToolsOnlyWhenTriggered ==
    RqPrepared =>
        (InjectedWebTools # {}
            => /\ rqConfig.webSearch
               /\ RqHasUser
               /\ rqRequest.messages[LastUserIdx(rqRequest.messages)].trigger)

\* flag on, trigger in the last user message: both web tools are injected,
\* and the caller's own WebSearch is dropped as a duplicate
C36_Witness ==
    /\ RqPrepared
    /\ rqConfig.webSearch
    /\ RqLast.role = "user"
    /\ RqLast.trigger
    /\ rqRequest.tools = {"Read", "WebSearch"}
    /\ InjectedWebTools = InjectedTools
    /\ Tool("Read", "client") \in rqBackend.tools
    /\ Tool("WebSearch", "client") \notin rqBackend.tools

\* the first assistant turn after position a, or the end of the conversation
NextAssistant(messages, a) ==
    IF \E b \in (a + 1)..Len(messages) : messages[b].role = "assistant"
    THEN CHOOSE b \in (a + 1)..Len(messages) :
            /\ messages[b].role = "assistant"
            /\ \A c \in (a + 1)..(b - 1) : messages[c].role # "assistant"
    ELSE Len(messages) + 1

\* the tool results of the turn that follows the assistant turn at position a
\* (one user turn, or one tool message per result)
FollowingResults(messages, a) ==
    ResultsIn(SubSeq(messages, a + 1, NextAssistant(messages, a) - 1))

\* every tool use of every assistant turn has exactly one result of its id in
\* the following turn, and every result there answers a tool use of that turn
TurnsPaired(messages) ==
    \A a \in 1..Len(messages) :
        messages[a].role = "assistant" =>
            LET uses    == messages[a].uses
                results == FollowingResults(messages, a)
            IN  /\ \A i \in 1..Len(uses) :
                      Cardinality({j \in 1..Len(results) : results[j].id = uses[i].id}) = 1
                /\ \A j \in 1..Len(results) :
                      \E i \in 1..Len(uses) : uses[i].id = results[j].id

\* C37: in every backend request issued by a streaming continuation, each
\* tool use of an appended assistant turn has exactly one tool result of the
\* same id in the turn appended after it, and each appended tool result
\* answers a tool use of that assistant turn.
C37_ContinuationTurnsPaired ==
    stPc \in {"fetch", "reading"} => TurnsPaired(stHistory)

\* the stop reason of the streamed response: that of its message_delta
StreamedStopReason == out[Len(out) - 1].kind

\* the tool_use blocks started on the stream
StreamedToolUses == {p \in Starts : out[p].kind = "tool_use"}

\* C38: in every response streamed to the caller from an orderly upstream,
\* the final stop_reason is tool_use if and only if at least one tool_use
\* block was delivered in that response.
C38_ToolUseStopReasonIffDelivered ==
    (EndedWithStop /\ Orderly /\ IsEv(out[Len(out) - 1], "message_delta"))
        => (StreamedStopReason = "tool_use" <=> StreamedToolUses # {})

(***************************************************************************)
(* Properties of the local tool-server client                              *)
(***************************************************************************)
LcIssuedIds == {lcIssued[i] : i \in 1..Len(lcIssued)}

\* C39: every request sent gets an id no other request of the client has,
\* and is settled exactly once, by the first of its response, its timeout and
\* a process exit: a request is out of the pending table exactly when it was
\* settled, it is never settled a second time whatever arrives later, and
\* its timer is armed only while it is pending.
C39_RequestsSettledOnce ==
    /\ \A i, j \in 1..Len(lcIssued) : i # j => lcIssued[i] # lcIssued[j]
    /\ lcPending \subseteq LcIssuedIds
    /\ \A id \in 1..MaxRequests :
          /\ Len(lcReqs[id].settles) <= 1
          /\ id \in LcIssuedIds => (id \notin lcPending <=> Len(lcReqs[id].settles) = 1)
          /\ id \notin LcIssuedIds => lcReqs[id].settles = <<>>
          /\ lcReqs[id].timer => id \in lcPending

\* three requests: one settled by its response, one settled by its timeout
\* and answered afterwards, one settled by the exit of the subprocess
C39_Witness ==
    /\ Len(lcIssued) = 3
    /\ lcPending = {}
    /\ \E a, b, c \in 1..MaxRequests :
          /\ lcReqs[a].settles = <<"response">>
          /\ lcReqs[b].settles = <<"timeout">> /\ lcLate = b
          /\ lcReqs[c].settles = <<"exit">>

\* C40: after shutdown() the subprocess is eventually terminated, also when
\* it does not exit on its own once its stdin is closed.
C40_ShutdownTerminatesSubprocess ==
    \A n \in 1..MaxSpawns : (n \in lcShut) ~> (lcProcs[n].state = "exited")

====
